---------------------------- MODULE Spec2Model ----------------------------
(***************************************************************************)
(* A model of the study-planning engine of the learning companion:         *)
(*   - app/roadmap_service.py   the roadmap generator and its catalog      *)
(*   - app/scheduler_service.py the study scheduler                        *)
(*   - app/db.py                the roadmap and schedule tables            *)
(* Each part has its own specification (SpecGen, SpecDet, SpecSlots,       *)
(* SpecSched, SpecRange, SpecAdapt, SpecFocus, Spec for the roadmap        *)
(* tables, SpecTx for create_roadmap on several connections,               *)
(* SpecScheduleDb, SpecStreak, SpecAdmin, SpecReadiness, SpecScore); the   *)
(* variables of the parts a specification does not exercise keep their     *)
(* idle initial values.                                                    *)
(*                                                                         *)
(* Conventions.  Python None and the empty string (both falsy) are "".     *)
(* A float with one decimal is kept in tenths, one with two decimals in    *)
(* hundredths.  A time "HH:MM" is the pair <<HH, MM>>.  A date is a day    *)
(* number; its weekday() is (day number) % 7 with Monday = 0.              *)
(***************************************************************************)
EXTENDS Integers, Sequences, FiniteSets, TLC

VARIABLES
    \* ---- roadmap_service.py: module-level tables and one generator
    catalog,          \* [templates, weights, extras]: the module-level dicts
    genInput,         \* <<>> or <<[branch, company_type, preparation_level, target_company]>>
    genFirst,         \* <<>> or <<output of the first generate() of genInput>>
    genOut,           \* <<>> or <<output of the latest generate() of genInput>>
    genRuns,          \* number of generate() calls so far in the process
    \* ---- scheduler_service.py: one StudyScheduler instance
    DEFAULT_STUDY_SLOTS, \* the class-level slot list
    user_config,      \* <<>> or <<[daily_hours, college_start, college_end, work_start, work_end]>>
    subjects,         \* self.subjects: sequence of [subject_name, weight]
    day_date,         \* the date passed in (a day number)
    slotsOut,         \* <<>> or <<result of get_available_slots(day_date)>>
    allocOut,         \* <<>> or <<result of the latest distribute_hours()>>
    schedFirst,       \* <<>> or <<first result of generate_weekly_schedule(day_date)>>
    schedOut,         \* <<>> or <<the task list generated last>>
    performance_data, \* the list of logs passed to the latest adapt_schedule
    adjustments,      \* <<>> or <<the map adapt_schedule returned>>
    prevWeights,      \* the subject list before the latest feedback round
    suggestions,      \* <<>> or <<the list suggest_focus_areas returned>>
    \* ---- db.py: the tables
    roadmaps,         \* set of rows [id, email, total_days]
    roadmap_topics,   \* set of rows [id, roadmap_id, topic_name, order_sequence, status]
    roadmap_milestones, \* set of rows [id, roadmap_id, after_topic_order, reached]
    weekly_schedules, \* set of rows [id, email, week_start_date]
    study_tasks,      \* set of rows [id, email, schedule_id, task, completed]
    seq,              \* sqlite_sequence: the last AUTOINCREMENT id per table
    lastCall,         \* the latest db call: [op, email, deleted (rows its DELETEs removed)]
    study_streaks,    \* set of rows [email, current_streak, best_streak, last_study_date,
                      \* total_study_days]
    today,            \* datetime.now().date(), a day number
    calls,            \* the create_roadmap calls in flight: [pc, email, old] per connection
    user_rows,        \* for each other table with an email column, the emails it holds rows of
    \* ---- the readiness scorers (pure functions of their arguments)
    readinessArgs,    \* <<>> or <<the arguments of one scorer call>>
    readinessOut      \* <<>> or <<the dict that call returned>>

genVars   == <<catalog, genInput, genFirst, genOut, genRuns>>
schedVars == <<DEFAULT_STUDY_SLOTS, user_config, subjects, day_date, slotsOut, allocOut,
               schedFirst, schedOut, performance_data, adjustments, prevWeights,
               suggestions>>
dbVars    == <<roadmaps, roadmap_topics, roadmap_milestones, weekly_schedules,
               study_tasks, seq, lastCall>>
scoreVars == <<readinessArgs, readinessOut>>
streakVars == <<study_streaks, today>>
txVars    == <<calls, user_rows>>
vars      == <<genVars, schedVars, dbVars, scoreVars, streakVars, txVars>>

(***************************************************************************)
(* Generic helpers.                                                        *)
(***************************************************************************)
Range(s) == {s[i] : i \in 1..Len(s)}

RECURSIVE SumSeq(_)
SumSeq(s) == IF s = <<>> THEN 0 ELSE Head(s) + SumSeq(Tail(s))

Min(a, b) == IF a < b THEN a ELSE b
Max(a, b) == IF a > b THEN a ELSE b

\* Python round() of the exact quotient num/den (den > 0, num >= 0):
\* round half to even.
RoundHalfEven(num, den) ==
    LET q == num \div den
        r == num % den
    IN  IF 2 * r > den \/ (2 * r = den /\ q % 2 = 1) THEN q + 1 ELSE q

(***************************************************************************)
(* roadmap_service.py: the catalog.                                        *)
(***************************************************************************)
SUPPORTED_LEVELS == <<"beginner", "intermediate", "advanced">>

\* COMPANY_WEIGHTS, each multiplier in tenths.
COMPANY_WEIGHTS ==
  ("service" :> ("aptitude" :> 14 @@ "core_cs" :> 12 @@ "dsa" :> 9 @@ "programming" :> 11 @@ "system_design" :> 5 @@ "soft_skills" :> 13 @@ "web" :> 8 @@ "core_ece" :> 6 @@ "core_mech" :> 6 @@ "core_eee" :> 6 @@ "core_civil" :> 6))
  @@
  ("product" :> ("aptitude" :> 7 @@ "core_cs" :> 12 @@ "dsa" :> 15 @@ "programming" :> 13 @@ "system_design" :> 15 @@ "soft_skills" :> 10 @@ "web" :> 11 @@ "core_ece" :> 4 @@ "core_mech" :> 4 @@ "core_eee" :> 4 @@ "core_civil" :> 4))
  @@
  ("core" :> ("aptitude" :> 10 @@ "core_cs" :> 8 @@ "dsa" :> 6 @@ "programming" :> 7 @@ "system_design" :> 3 @@ "soft_skills" :> 10 @@ "web" :> 3 @@ "core_ece" :> 16 @@ "core_mech" :> 16 @@ "core_eee" :> 16 @@ "core_civil" :> 16))

COMPANY_EXTRAS ==
  ("TCS" :> <<
      [topic |-> "TCS NQT - Quantitative Practice", days |-> 3, category |-> "aptitude", level |-> "beginner"],
      [topic |-> "TCS NQT - Coding Practice", days |-> 3, category |-> "programming", level |-> "intermediate"] >>)
  @@
  ("Infosys" :> <<
      [topic |-> "InfyTQ Platform Practice", days |-> 3, category |-> "programming", level |-> "beginner"],
      [topic |-> "Infosys SP & DSE - OOP & DSA", days |-> 4, category |-> "dsa", level |-> "intermediate"] >>)
  @@
  ("Wipro" :> <<
      [topic |-> "Wipro NLTH - Aptitude Practice", days |-> 3, category |-> "aptitude", level |-> "beginner"],
      [topic |-> "Wipro - Coding & Essay Round", days |-> 3, category |-> "programming", level |-> "intermediate"] >>)
  @@
  ("Cognizant" :> <<
      [topic |-> "CTS GenC - Aptitude & Coding", days |-> 3, category |-> "aptitude", level |-> "beginner"] >>)
  @@
  ("Amazon" :> <<
      [topic |-> "Amazon OA - Problem Sets", days |-> 4, category |-> "dsa", level |-> "advanced"],
      [topic |-> "Amazon Leadership Principles", days |-> 2, category |-> "soft_skills", level |-> "advanced"] >>)
  @@
  ("Google" :> <<
      [topic |-> "Google Coding Practice - LC Medium/Hard", days |-> 5, category |-> "dsa", level |-> "advanced"],
      [topic |-> "Google System Design Rounds", days |-> 4, category |-> "system_design", level |-> "advanced"] >>)
  @@
  ("Microsoft" :> <<
      [topic |-> "Microsoft OA Practice", days |-> 4, category |-> "dsa", level |-> "advanced"],
      [topic |-> "Microsoft Design Round Prep", days |-> 3, category |-> "system_design", level |-> "advanced"] >>)

\* MILESTONE_DEFS: the three templates, in level order.
MILESTONE_DEFS ==
  << [after_level |-> "beginner", title |-> "Foundation Complete"],
     [after_level |-> "intermediate", title |-> "Core Skills Mastered"],
     [after_level |-> "advanced", title |-> "Placement Ready"] >>

BRANCH_TEMPLATES ==
  ("CSE" :> [
      beginner |-> <<
        [topic |-> "Programming Basics (C / Python)", days |-> 5, category |-> "programming"],
        [topic |-> "Variables, Data Types & Operators", days |-> 3, category |-> "programming"],
        [topic |-> "Control Structures & Loops", days |-> 3, category |-> "programming"],
        [topic |-> "Functions & Scope", days |-> 3, category |-> "programming"],
        [topic |-> "Arrays & Strings", days |-> 4, category |-> "dsa"],
        [topic |-> "Linked Lists", days |-> 4, category |-> "dsa"],
        [topic |-> "Basic Aptitude - Numbers & Percentages", days |-> 3, category |-> "aptitude"],
        [topic |-> "Basic Aptitude - Time & Work", days |-> 3, category |-> "aptitude"],
        [topic |-> "Logical Reasoning Fundamentals", days |-> 3, category |-> "aptitude"] >>,
      intermediate |-> <<
        [topic |-> "Stacks & Queues", days |-> 4, category |-> "dsa"],
        [topic |-> "Recursion & Backtracking", days |-> 5, category |-> "dsa"],
        [topic |-> "Trees & Binary Search Trees", days |-> 5, category |-> "dsa"],
        [topic |-> "Hashing & Hash Maps", days |-> 3, category |-> "dsa"],
        [topic |-> "Sorting & Searching Algorithms", days |-> 4, category |-> "dsa"],
        [topic |-> "DBMS - SQL, Normalization, Joins", days |-> 5, category |-> "core_cs"],
        [topic |-> "OS - Processes, Threads, Scheduling", days |-> 5, category |-> "core_cs"],
        [topic |-> "OOP Concepts (Java / C++)", days |-> 4, category |-> "programming"],
        [topic |-> "Networking - TCP/IP, OSI Model", days |-> 4, category |-> "core_cs"],
        [topic |-> "Verbal Ability & Reading Comprehension", days |-> 3, category |-> "aptitude"] >>,
      advanced |-> <<
        [topic |-> "Graphs - BFS, DFS, Shortest Path", days |-> 6, category |-> "dsa"],
        [topic |-> "Dynamic Programming", days |-> 7, category |-> "dsa"],
        [topic |-> "Greedy Algorithms", days |-> 3, category |-> "dsa"],
        [topic |-> "System Design Basics", days |-> 5, category |-> "system_design"],
        [topic |-> "Design Patterns & SOLID Principles", days |-> 4, category |-> "system_design"],
        [topic |-> "Advanced SQL & Query Optimization", days |-> 3, category |-> "core_cs"],
        [topic |-> "Mock Interviews & HR Preparation", days |-> 5, category |-> "soft_skills"],
        [topic |-> "Resume Building & Project Showcase", days |-> 3, category |-> "soft_skills"] >> ])
  @@
  ("ECE" :> [
      beginner |-> <<
        [topic |-> "Basic Electronics & Circuit Theory", days |-> 5, category |-> "core_ece"],
        [topic |-> "Network Theory - KVL, KCL, Thevenin", days |-> 5, category |-> "core_ece"],
        [topic |-> "Digital Electronics - Logic Gates", days |-> 4, category |-> "core_ece"],
        [topic |-> "Number Systems & Boolean Algebra", days |-> 3, category |-> "core_ece"],
        [topic |-> "Programming Basics (C / Python)", days |-> 5, category |-> "programming"],
        [topic |-> "Basic Aptitude", days |-> 4, category |-> "aptitude"] >>,
      intermediate |-> <<
        [topic |-> "Signals & Systems", days |-> 5, category |-> "core_ece"],
        [topic |-> "Analog Electronics - Op-Amps, BJT", days |-> 5, category |-> "core_ece"],
        [topic |-> "Microprocessors & Microcontrollers", days |-> 5, category |-> "core_ece"],
        [topic |-> "Communication Systems - AM, FM, PM", days |-> 5, category |-> "core_ece"],
        [topic |-> "Control Systems Basics", days |-> 4, category |-> "core_ece"],
        [topic |-> "Data Structures - Arrays, Linked List", days |-> 4, category |-> "dsa"],
        [topic |-> "DBMS Fundamentals", days |-> 3, category |-> "core_cs"],
        [topic |-> "Verbal & Logical Reasoning", days |-> 3, category |-> "aptitude"] >>,
      advanced |-> <<
        [topic |-> "VLSI Design Basics", days |-> 5, category |-> "core_ece"],
        [topic |-> "Electromagnetic Theory", days |-> 5, category |-> "core_ece"],
        [topic |-> "DSP - Digital Signal Processing", days |-> 5, category |-> "core_ece"],
        [topic |-> "Embedded Systems & IoT", days |-> 5, category |-> "core_ece"],
        [topic |-> "Trees, Graphs & DP (for IT roles)", days |-> 6, category |-> "dsa"],
        [topic |-> "Mock Interviews & HR Preparation", days |-> 4, category |-> "soft_skills"] >> ])
  @@
  ("Mechanical" :> [
      beginner |-> <<
        [topic |-> "Engineering Mechanics & Statics", days |-> 5, category |-> "core_mech"],
        [topic |-> "Thermodynamics - Laws & Cycles", days |-> 5, category |-> "core_mech"],
        [topic |-> "Strength of Materials - Stress, Strain", days |-> 5, category |-> "core_mech"],
        [topic |-> "Engineering Drawing & GD&T", days |-> 4, category |-> "core_mech"],
        [topic |-> "Programming Basics (C / Python)", days |-> 4, category |-> "programming"],
        [topic |-> "Basic Aptitude", days |-> 4, category |-> "aptitude"] >>,
      intermediate |-> <<
        [topic |-> "Fluid Mechanics", days |-> 5, category |-> "core_mech"],
        [topic |-> "Heat Transfer", days |-> 5, category |-> "core_mech"],
        [topic |-> "Machine Design", days |-> 5, category |-> "core_mech"],
        [topic |-> "Manufacturing Processes & Welding", days |-> 5, category |-> "core_mech"],
        [topic |-> "Theory of Machines - Gears, Cams", days |-> 4, category |-> "core_mech"],
        [topic |-> "Material Science", days |-> 3, category |-> "core_mech"],
        [topic |-> "Quantitative & Logical Aptitude", days |-> 4, category |-> "aptitude"] >>,
      advanced |-> <<
        [topic |-> "IC Engines & Automobiles", days |-> 5, category |-> "core_mech"],
        [topic |-> "Power Plant Engineering", days |-> 4, category |-> "core_mech"],
        [topic |-> "CAD/CAM/CAE Tools", days |-> 5, category |-> "core_mech"],
        [topic |-> "Industrial Engineering & Operations Research", days |-> 4, category |-> "core_mech"],
        [topic |-> "Advanced DSA (for IT roles)", days |-> 5, category |-> "dsa"],
        [topic |-> "Mock Interviews & HR Preparation", days |-> 4, category |-> "soft_skills"] >> ])
  @@
  ("EEE" :> [
      beginner |-> <<
        [topic |-> "Basic Electrical Engineering", days |-> 5, category |-> "core_eee"],
        [topic |-> "Circuit Theory & Network Analysis", days |-> 5, category |-> "core_eee"],
        [topic |-> "Electromagnetic Fields", days |-> 4, category |-> "core_eee"],
        [topic |-> "Programming Basics (C / Python)", days |-> 4, category |-> "programming"],
        [topic |-> "Basic Aptitude", days |-> 4, category |-> "aptitude"] >>,
      intermediate |-> <<
        [topic |-> "Electrical Machines - DC & AC", days |-> 6, category |-> "core_eee"],
        [topic |-> "Power Systems", days |-> 5, category |-> "core_eee"],
        [topic |-> "Control Systems", days |-> 5, category |-> "core_eee"],
        [topic |-> "Power Electronics", days |-> 5, category |-> "core_eee"],
        [topic |-> "Data Structures Basics", days |-> 4, category |-> "dsa"],
        [topic |-> "Verbal & Logical Reasoning", days |-> 3, category |-> "aptitude"] >>,
      advanced |-> <<
        [topic |-> "Switchgear & Protection", days |-> 4, category |-> "core_eee"],
        [topic |-> "Instrumentation & Measurements", days |-> 4, category |-> "core_eee"],
        [topic |-> "Renewable Energy Systems", days |-> 4, category |-> "core_eee"],
        [topic |-> "Advanced DSA (for IT roles)", days |-> 5, category |-> "dsa"],
        [topic |-> "Mock Interviews & HR Preparation", days |-> 4, category |-> "soft_skills"] >> ])
  @@
  ("Civil" :> [
      beginner |-> <<
        [topic |-> "Engineering Mechanics", days |-> 5, category |-> "core_civil"],
        [topic |-> "Surveying", days |-> 4, category |-> "core_civil"],
        [topic |-> "Building Materials & Construction", days |-> 4, category |-> "core_civil"],
        [topic |-> "Programming Basics (C / Python)", days |-> 4, category |-> "programming"],
        [topic |-> "Basic Aptitude", days |-> 4, category |-> "aptitude"] >>,
      intermediate |-> <<
        [topic |-> "Structural Analysis", days |-> 5, category |-> "core_civil"],
        [topic |-> "Concrete Technology", days |-> 4, category |-> "core_civil"],
        [topic |-> "Geotechnical Engineering", days |-> 5, category |-> "core_civil"],
        [topic |-> "Fluid Mechanics & Hydraulics", days |-> 5, category |-> "core_civil"],
        [topic |-> "Environmental Engineering", days |-> 4, category |-> "core_civil"],
        [topic |-> "Quantitative & Logical Aptitude", days |-> 4, category |-> "aptitude"] >>,
      advanced |-> <<
        [topic |-> "Design of Steel & RCC Structures", days |-> 6, category |-> "core_civil"],
        [topic |-> "Transportation Engineering", days |-> 4, category |-> "core_civil"],
        [topic |-> "Project Management - CPM/PERT", days |-> 4, category |-> "core_civil"],
        [topic |-> "AutoCAD / Revit / STAAD Pro", days |-> 5, category |-> "core_civil"],
        [topic |-> "Mock Interviews & HR Preparation", days |-> 4, category |-> "soft_skills"] >> ])
  @@
  ("IT" :> [
      beginner |-> <<
        [topic |-> "Programming Basics (Python / Java)", days |-> 5, category |-> "programming"],
        [topic |-> "Variables, Data Types & Operators", days |-> 3, category |-> "programming"],
        [topic |-> "Control Structures & Loops", days |-> 3, category |-> "programming"],
        [topic |-> "Functions & Scope", days |-> 3, category |-> "programming"],
        [topic |-> "Arrays & Strings", days |-> 4, category |-> "dsa"],
        [topic |-> "Linked Lists", days |-> 4, category |-> "dsa"],
        [topic |-> "Web Basics - HTML, CSS, JS", days |-> 4, category |-> "web"],
        [topic |-> "Basic Aptitude", days |-> 4, category |-> "aptitude"] >>,
      intermediate |-> <<
        [topic |-> "Stacks & Queues", days |-> 4, category |-> "dsa"],
        [topic |-> "Recursion & Backtracking", days |-> 5, category |-> "dsa"],
        [topic |-> "Trees & Binary Search Trees", days |-> 5, category |-> "dsa"],
        [topic |-> "DBMS - SQL, Normalization, Joins", days |-> 5, category |-> "core_cs"],
        [topic |-> "OS - Processes, Threads, Scheduling", days |-> 5, category |-> "core_cs"],
        [topic |-> "Networking - TCP/IP, OSI Model", days |-> 4, category |-> "core_cs"],
        [topic |-> "OOP Concepts (Java / C++)", days |-> 4, category |-> "programming"],
        [topic |-> "React / Node.js Basics", days |-> 5, category |-> "web"],
        [topic |-> "Verbal & Logical Reasoning", days |-> 3, category |-> "aptitude"] >>,
      advanced |-> <<
        [topic |-> "Graphs - BFS, DFS, Shortest Path", days |-> 6, category |-> "dsa"],
        [topic |-> "Dynamic Programming", days |-> 7, category |-> "dsa"],
        [topic |-> "System Design Basics", days |-> 5, category |-> "system_design"],
        [topic |-> "Cloud & DevOps Fundamentals", days |-> 4, category |-> "web"],
        [topic |-> "Mock Interviews & HR Preparation", days |-> 5, category |-> "soft_skills"],
        [topic |-> "Resume Building & Projects", days |-> 3, category |-> "soft_skills"] >> ])
\* The module-level tables as they stand when the module is imported.
Catalog0 ==
    [templates |-> BRANCH_TEMPLATES, weights |-> COMPANY_WEIGHTS, extras |-> COMPANY_EXTRAS]

(***************************************************************************)
(* roadmap_service.py: RoadmapGenerator.  cat is the catalog the run       *)
(* reads, g the generator's fields.                                        *)
(***************************************************************************)
\* level_order.get(lv, dflt) with level_order = {lv: i for i, lv in enumerate(SUPPORTED_LEVELS)}
LevelOrderGet(lv, dflt) ==
    IF \E i \in 1..Len(SUPPORTED_LEVELS) : SUPPORTED_LEVELS[i] = lv
    THEN (CHOOSE i \in 1..Len(SUPPORTED_LEVELS) : SUPPORTED_LEVELS[i] = lv) - 1
    ELSE dflt

\* One level of the template, each entry copied and tagged with its level.
TagLevel(entries, level) ==
    [i \in 1..Len(entries) |->
        [topic |-> entries[i].topic, days |-> entries[i].days,
         category |-> entries[i].category, level |-> level]]

\* A loader with no template for a branch the catalog does not list.
LoadKnownBranchOnly(cat, g) ==
    IF g.branch \in DOMAIN cat.templates
    THEN TagLevel(cat.templates[g.branch].beginner, "beginner")
         \o TagLevel(cat.templates[g.branch].intermediate, "intermediate")
         \o TagLevel(cat.templates[g.branch].advanced, "advanced")
    ELSE <<>>

_load_branch_topics(cat, g) ==
    LET template == IF g.branch \in DOMAIN cat.templates
                    THEN cat.templates[g.branch] ELSE cat.templates["CSE"]
    IN  TagLevel(template.beginner, "beginner")
        \o TagLevel(template.intermediate, "intermediate")
        \o TagLevel(template.advanced, "advanced")

\* weights.get(category, 1.0), in tenths
WeightOf(weights, category) ==
    IF category \in DOMAIN weights THEN weights[category] ELSE 10

\* max(1, round(days * w))
AdjustedDays(days, w10) == Max(1, RoundHalfEven(days * w10, 10))

\* A test that also drops a multiplier of exactly 0.3.
DroppedAtLimit(w10) == w10 <= 3

\* "if w < 0.3: continue"
Dropped(w10) == w10 < 3

RECURSIVE ApplyWeightsLoop(_, _)
ApplyWeightsLoop(weights, topics) ==
    IF topics = <<>> THEN <<>>
    ELSE LET t == Head(topics)
             w == WeightOf(weights, t.category)
         IN  IF Dropped(w)
             THEN ApplyWeightsLoop(weights, Tail(topics))
             ELSE << [topic |-> t.topic, days |-> t.days, category |-> t.category,
                      level |-> t.level, estimated_days |-> AdjustedDays(t.days, w),
                      weight |-> w] >>
                  \o ApplyWeightsLoop(weights, Tail(topics))

_apply_company_weights(cat, g, topics) ==
    LET weights == IF g.company_type \in DOMAIN cat.weights
                   THEN cat.weights[g.company_type] ELSE cat.weights["service"]
    IN  ApplyWeightsLoop(weights, topics)

\* max_idx = level_order.get(self.preparation_level, 2)
MaxIdx(g) == LevelOrderGet(g.preparation_level, 2)

\* A level test that lets every topic through.
KeepEveryLevel(t, max_idx) == TRUE

\* level_order.get(t["level"], 0) <= max_idx
KeepLevel(t, max_idx) == LevelOrderGet(t.level, 0) <= max_idx

RECURSIVE FilterLevelLoop(_, _)
FilterLevelLoop(topics, max_idx) ==
    IF topics = <<>> THEN <<>>
    ELSE (IF KeepLevel(Head(topics), max_idx) THEN <<Head(topics)>> ELSE <<>>)
         \o FilterLevelLoop(Tail(topics), max_idx)

_filter_by_level(g, topics) == FilterLevelLoop(topics, MaxIdx(g))

ExtraTopic(ex) ==
    [topic |-> ex.topic, days |-> ex.days, category |-> ex.category, level |-> ex.level,
     estimated_days |-> ex.days, weight |-> 10]

\* The extras of the target company that pass the level test, as topics.
ExtrasFor(cat, g) ==
    LET extras == IF g.target_company \in DOMAIN cat.extras
                  THEN cat.extras[g.target_company] ELSE <<>>
    IN  FilterLevelLoop([i \in 1..Len(extras) |-> ExtraTopic(extras[i])], MaxIdx(g))

_inject_company_extras(cat, g, topics) == topics \o ExtrasFor(cat, g)

\* A sort key that leaves the level out.
SortKeyDaysOnly(t) == <<0, t.estimated_days>>

\* The sort key of _assign_order: (level index, estimated_days), compared as tuples.
SortKey(t) == <<LevelOrderGet(t.level, 0), t.estimated_days>>

KeyLeq(a, b) == a[1] < b[1] \/ (a[1] = b[1] /\ a[2] <= b[2])

\* list.sort is stable: an element goes after every element whose key is <= its own.
RECURSIVE InsertSorted(_, _)
InsertSorted(sorted, t) ==
    IF sorted = <<>> THEN <<t>>
    ELSE IF KeyLeq(SortKey(Head(sorted)), SortKey(t))
         THEN <<Head(sorted)>> \o InsertSorted(Tail(sorted), t)
         ELSE <<t>> \o sorted

RECURSIVE StableSort(_, _)
StableSort(done, todo) ==
    IF todo = <<>> THEN done
    ELSE StableSort(InsertSorted(done, Head(todo)), Tail(todo))

_assign_order(topics) ==
    LET s == StableSort(<<>>, topics)
    IN  [i \in 1..Len(s) |->
            [topic |-> s[i].topic, days |-> s[i].days, category |-> s[i].category,
             level |-> s[i].level, estimated_days |-> s[i].estimated_days,
             weight |-> s[i].weight, order_sequence |-> i]]

RECURSIVE SelectLevel(_, _)
SelectLevel(topics, level) ==
    IF topics = <<>> THEN <<>>
    ELSE (IF Head(topics).level = level THEN <<Head(topics)>> ELSE <<>>)
         \o SelectLevel(Tail(topics), level)

SumDays(topics) == SumSeq([i \in 1..Len(topics) |-> topics[i].estimated_days])

\* The order of the first topic of the level instead of the largest.
FirstOrder(topics) == topics[1].order_sequence

\* max(t["order_sequence"] for t in level_topics)
MaxOrder(topics) ==
    CHOOSE m \in {topics[i].order_sequence : i \in 1..Len(topics)} :
        \A i \in 1..Len(topics) : topics[i].order_sequence <= m

RECURSIVE BuildMilestonesLoop(_, _, _)
BuildMilestonesLoop(defs, topics, day_cursor) ==
    IF defs = <<>> THEN <<>>
    ELSE LET level        == Head(defs).after_level
             level_topics == SelectLevel(topics, level)
         IN  IF level_topics = <<>>
             THEN BuildMilestonesLoop(Tail(defs), topics, day_cursor)
             ELSE << [title |-> Head(defs).title,
                      after_topic_order |-> MaxOrder(level_topics),
                      cumulative_days |-> day_cursor + SumDays(level_topics),
                      level |-> level] >>
                  \o BuildMilestonesLoop(Tail(defs), topics,
                                         day_cursor + SumDays(level_topics))

_build_milestones(topics) == BuildMilestonesLoop(MILESTONE_DEFS, topics, 0)

\* sorted({t["level"] for t in ordered}): alphabetical
LevelsIncluded(topics) ==
    LET has(lv) == \E i \in 1..Len(topics) : topics[i].level = lv
    IN  (IF has("advanced") THEN <<"advanced">> ELSE <<>>)
        \o (IF has("beginner") THEN <<"beginner">> ELSE <<>>)
        \o (IF has("intermediate") THEN <<"intermediate">> ELSE <<>>)

generate(cat, g) ==
    LET raw_topics == _load_branch_topics(cat, g)
        weighted   == _apply_company_weights(cat, g, raw_topics)
        filtered   == _filter_by_level(g, weighted)
        injected   == IF g.target_company # ""
                      THEN _inject_company_extras(cat, g, filtered) ELSE filtered
        ordered    == _assign_order(injected)
        milestones == _build_milestones(ordered)
        total_days == SumDays(ordered)
    IN  [topics |-> ordered, milestones |-> milestones, total_days |-> total_days,
         summary |-> [branch |-> g.branch, company_type |-> g.company_type,
                      preparation_level |-> g.preparation_level,
                      target_company |-> g.target_company,
                      topic_count |-> Len(ordered), total_days |-> total_days,
                      levels_included |-> LevelsIncluded(ordered)]]

\* One level of a template with the adjusted days stored into its entries.
AdjustLevelInPlace(entries, weights) ==
    [i \in 1..Len(entries) |->
        IF Dropped(WeightOf(weights, entries[i].category)) THEN entries[i]
        ELSE [entries[i] EXCEPT
                !.days = AdjustedDays(@, WeightOf(weights, entries[i].category))]]

\* The tables after a run that works on the template entries themselves
\* instead of on copies of them.
CatalogSharedWithRun(cat, g) ==
    LET key     == IF g.branch \in DOMAIN cat.templates THEN g.branch ELSE "CSE"
        weights == IF g.company_type \in DOMAIN cat.weights
                   THEN cat.weights[g.company_type] ELSE cat.weights["service"]
    IN  [cat EXCEPT !.templates[key] =
            [beginner     |-> AdjustLevelInPlace(@.beginner, weights),
             intermediate |-> AdjustLevelInPlace(@.intermediate, weights),
             advanced     |-> AdjustLevelInPlace(@.advanced, weights)]]

\* What a run leaves in the module-level tables.  _load_branch_topics copies
\* every entry ({**t, "level": level}) into a new list and _filter_by_level
\* builds another new list, so the append of _inject_company_extras, the
\* in-place sort and the order_sequence stores of _assign_order all act on
\* the run's own objects.
CatalogAfterGenerate(cat, g) == cat

(***************************************************************************)
(* Inputs of the generator: every catalog key, and one key that is not in  *)
(* the catalog for each field.  target_company "" is None.                 *)
(***************************************************************************)
Branches     == DOMAIN BRANCH_TEMPLATES \cup {"Aerospace"}
CompanyTypes == DOMAIN COMPANY_WEIGHTS \cup {"startup"}
PrepLevels   == Range(SUPPORTED_LEVELS) \cup {"expert"}
Companies    == DOMAIN COMPANY_EXTRAS \cup {"", "Zoho"}

GenInputs ==
    [branch : Branches, company_type : CompanyTypes,
     preparation_level : PrepLevels, target_company : Companies]

\* Generators other than the observed one that run in the same process.
OtherInputs ==
    { g \in GenInputs : /\ g.branch \in {"CSE", "Mechanical", "Aerospace"}
                        /\ g.company_type = "product"
                        /\ g.preparation_level = "advanced"
                        /\ g.target_company \in {"", "Google"} }

MaxRuns == 3

GenIdle ==
    /\ catalog = <<>>
    /\ genInput = <<>>
    /\ genFirst = <<>>
    /\ genOut = <<>>
    /\ genRuns = 0

GenInit ==
    /\ catalog = Catalog0
    /\ genInput \in {<<g>> : g \in GenInputs}
    /\ genFirst = <<>>
    /\ genOut = <<>>
    /\ genRuns = 0

\* RoadmapGenerator(branch, company_type, preparation_level, target_company).generate()
Generate ==
    /\ genInput # <<>>
    /\ genRuns < MaxRuns
    /\ LET out == generate(catalog, genInput[1])
       IN  /\ genOut' = <<out>>
           /\ genFirst' = IF genFirst = <<>> THEN <<out>> ELSE genFirst
    /\ catalog' = CatalogAfterGenerate(catalog, genInput[1])
    /\ genRuns' = genRuns + 1
    /\ UNCHANGED genInput

\* generate() of another generator object in the same process.
GenerateOther ==
    /\ genInput # <<>>
    /\ genRuns < MaxRuns
    /\ \E h \in OtherInputs : catalog' = CatalogAfterGenerate(catalog, h)
    /\ genRuns' = genRuns + 1
    /\ UNCHANGED <<genInput, genFirst, genOut>>


(***************************************************************************)
(* scheduler_service.py: StudyScheduler.  cfg is self.user_config, subs    *)
(* self.subjects, slots0 the class-level DEFAULT_STUDY_SLOTS.              *)
(***************************************************************************)
PRIORITY_WEAK == 3
PRIORITY_STRONG == 1
DEFAULT_SESSION_DURATION == 60
MAX_DAILY_HOURS == 4

DefaultSlots0 ==
    << <<<<6, 0>>, <<8, 0>>>>, <<<<14, 0>>, <<16, 0>>>>,
       <<<<18, 0>>, <<20, 0>>>>, <<<<20, 0>>, <<22, 0>>>> >>

\* self.daily_hours = min(user_config.get("daily_hours", 3.0), MAX_DAILY_HOURS), in tenths
daily_hours(cfg) == Min(cfg.daily_hours, MAX_DAILY_HOURS * 10)

\* in hundredths of an hour
calculate_weekly_hours(cfg) ==
    LET weekday_hours == daily_hours(cfg) * 10 * 5
        weekend_hours == Min(daily_hours(cfg) * 15, MAX_DAILY_HOURS * 100) * 2
    IN  weekday_hours + weekend_hours

_time_to_minutes(t) == t[1] * 60 + t[2]

\* The overlap test with closed ends: slots that touch count as overlapping.
SlotsOverlapClosed(start1, end1, start2, end2) ==
    /\ _time_to_minutes(start1) <= _time_to_minutes(end2)
    /\ _time_to_minutes(start2) <= _time_to_minutes(end1)

_slots_overlap(start1, end1, start2, end2) ==
    LET s1 == _time_to_minutes(start1)
        e1 == _time_to_minutes(end1)
        s2 == _time_to_minutes(start2)
        e2 == _time_to_minutes(end2)
    IN  s1 < e2 /\ s2 < e1

\* day_date.weekday(): Monday = 0 ... Sunday = 6
Weekday(d) == d % 7

\* The body of the filter loop for one slot: TRUE when the slot is skipped.
SlotSkipped(cfg, is_weekend, slot) ==
    \/ /\ ~is_weekend
       /\ cfg.college_start # <<>>
       /\ cfg.college_end # <<>>
       /\ _slots_overlap(slot[1], slot[2], cfg.college_start, cfg.college_end)
    \/ /\ cfg.work_start # <<>>
       /\ cfg.work_end # <<>>
       /\ _slots_overlap(slot[1], slot[2], cfg.work_start, cfg.work_end)

RECURSIVE FilterSlotsLoop(_, _, _)
FilterSlotsLoop(cfg, is_weekend, slots) ==
    IF slots = <<>> THEN <<>>
    ELSE (IF SlotSkipped(cfg, is_weekend, Head(slots)) THEN <<>> ELSE <<Head(slots)>>)
         \o FilterSlotsLoop(cfg, is_weekend, Tail(slots))

\* get_available_slots without its last line's fallback.
SlotsWithoutFallback(cfg, slots0, d) ==
    IF cfg.college_start = <<>> /\ cfg.work_start = <<>>
    THEN slots0
    ELSE FilterSlotsLoop(cfg, Weekday(d) >= 5, slots0)

get_available_slots(cfg, slots0, d) ==
    LET is_weekend == Weekday(d) >= 5
    IN  IF cfg.college_start = <<>> /\ cfg.work_start = <<>>
        THEN slots0
        ELSE LET available_slots == FilterSlotsLoop(cfg, is_weekend, slots0)
             IN  IF available_slots # <<>> THEN available_slots
                 ELSE << <<<<20, 0>>, <<22, 0>>>> >>

\* The exact decimal ties of round(subject_hours, 2) that the double
\* arithmetic of (weight / total_weight) * study_hours resolves upwards, as
\* <<daily hours in tenths, weight, total weight>>; every other tie of the
\* daily hours the model draws is resolved downwards.
TieRoundsUp ==
    { <<30, 1, 2>>, <<30, 1, 10>>, <<30, 2, 4>>, <<30, 3, 6>>, <<30, 3, 10>>,
      <<40, 1, 4>>, <<40, 2, 8>>, <<40, 3, 4>>, <<40, 3, 12>> }

\* study_hours = total - total * 0.15 - 1.5, in 1/10000 of an hour
StudyHours(cfg) ==
    LET total == calculate_weekly_hours(cfg)
    IN  total * 100 - total * 15 - 15000

\* The share cut to hundredths of an hour instead of rounded.
SubjectHoursTruncated(cfg, weight, total_weight) ==
    (weight * StudyHours(cfg)) \div (total_weight * 100)

\* round((weight / total_weight) * study_hours, 2), in hundredths of an hour
SubjectHours(cfg, weight, total_weight) ==
    LET num == weight * StudyHours(cfg)
        den == total_weight * 100
        q   == num \div den
        r   == num % den
    IN  IF 2 * r > den
           \/ (2 * r = den /\ <<daily_hours(cfg), weight, total_weight>> \in TieRoundsUp)
        THEN q + 1 ELSE q

TotalWeight(subs) == SumSeq([i \in 1..Len(subs) |-> subs[i].weight])

\* The returned dict in insertion order, as [subject_name, hours] entries
\* (subject names are unique: UNIQUE(email, subject_name)).
distribute_hours(cfg, subs) ==
    LET total_weight == TotalWeight(subs)
    IN  [i \in 1..Len(subs) |->
            [subject_name |-> subs[i].subject_name,
             hours |-> IF total_weight > 0
                       THEN SubjectHours(cfg, subs[i].weight, total_weight)
                       ELSE 0]]

TopicBank(subject_name, session_number) ==
    CASE subject_name = "DSA" ->
           <<"Arrays & Strings", "Linked Lists", "Trees", "Graphs", "DP", "Greedy">>
      [] subject_name = "Aptitude" ->
           <<"Quantitative", "Logical Reasoning", "Verbal", "Data Interpretation">>
      [] subject_name = "Core CS" -> <<"OS Concepts", "DBMS", "Networks", "OOP">>
      [] subject_name = "Programming" ->
           <<"Java Basics", "Python", "Problem Solving", "Code Practice">>
      [] OTHER ->
           <<"Topic " \o ToString(session_number + 1), "Practice", "Concepts", "Problems">>

_generate_topic(subject_name, session_number) ==
    LET topic_list == TopicBank(subject_name, session_number)
    IN  topic_list[(session_number % Len(topic_list)) + 1]

\* int(hours * 60 / DEFAULT_SESSION_DURATION), hours in hundredths
NumSessions(hours) == (hours * 60) \div (DEFAULT_SESSION_DURATION * 100)

\* The loop "for day_offset in range(7)" of one subject, from day_offset on.
RECURSIVE SubjectDayLoop(_, _, _, _, _, _, _)
SubjectDayLoop(cfg, slots0, week_start, subject_name, num_sessions, day_offset, session_count) ==
    IF day_offset >= 7 \/ session_count >= num_sessions THEN <<>>
    ELSE LET current_date == week_start + day_offset
             slots == get_available_slots(cfg, slots0, current_date)
         IN  IF Weekday(current_date) = 6 \/ slots = <<>>
             THEN SubjectDayLoop(cfg, slots0, week_start, subject_name, num_sessions,
                                 day_offset + 1, session_count)
             ELSE << [date |-> current_date,
                      time |-> slots[(session_count % Len(slots)) + 1][1],
                      subject |-> subject_name,
                      topic |-> _generate_topic(subject_name, session_count),
                      type |-> "study",
                      duration_minutes |-> DEFAULT_SESSION_DURATION] >>
                  \o SubjectDayLoop(cfg, slots0, week_start, subject_name, num_sessions,
                                    day_offset + 1, session_count + 1)

RECURSIVE _create_subject_tasks(_, _, _, _, _)
_create_subject_tasks(cfg, slots0, subs, week_start, allocation) ==
    IF allocation = <<>> THEN <<>>
    ELSE LET a == Head(allocation)
             known == \E i \in 1..Len(subs) : subs[i].subject_name = a.subject_name
         IN  (IF a.hours <= 0 \/ ~known THEN <<>>
              ELSE SubjectDayLoop(cfg, slots0, week_start, a.subject_name,
                                  NumSessions(a.hours), 0, 0))
             \o _create_subject_tasks(cfg, slots0, subs, week_start, Tail(allocation))

\* A revision placed in the first slot of its day.
RevisionInFirstSlot(cfg, slots0, current_date) ==
    LET slots == get_available_slots(cfg, slots0, current_date)
    IN  IF slots = <<>> THEN <<>>
        ELSE << [date |-> current_date, time |-> slots[1][1],
                 subject |-> "Mixed Revision", topic |-> "Review weak areas",
                 type |-> "revision", duration_minutes |-> 45] >>

RevisionTask(cfg, slots0, current_date) ==
    LET slots == get_available_slots(cfg, slots0, current_date)
    IN  IF slots = <<>> THEN <<>>
        ELSE << [date |-> current_date,
                 time |-> (IF Len(slots) > 1 THEN slots[Len(slots)] ELSE slots[1])[1],
                 subject |-> "Mixed Revision", topic |-> "Review weak areas",
                 type |-> "revision", duration_minutes |-> 45] >>

\* revision_days = [2, 5]
_create_revision_tasks(cfg, slots0, week_start) ==
    RevisionTask(cfg, slots0, week_start + 2) \o RevisionTask(cfg, slots0, week_start + 5)

_create_mock_test_task(cfg, slots0, week_start) ==
    LET mock_date == week_start + 5
        slots == get_available_slots(cfg, slots0, mock_date)
    IN  IF slots = <<>> THEN <<>>
        ELSE << [date |-> mock_date,
                 time |-> (IF Len(slots) > 1 THEN slots[2] ELSE slots[1])[1],
                 subject |-> "Full Mock Test", topic |-> "Complete assessment",
                 type |-> "mock_test", duration_minutes |-> 90] >>

\* key=lambda t: (t["date"], t["time"]); ISO dates and zero-padded "HH:MM"
\* strings compare as the day numbers and the minutes do.
TaskKeyLeq(a, b) ==
    \/ a.date < b.date
    \/ a.date = b.date /\ _time_to_minutes(a.time) <= _time_to_minutes(b.time)

RECURSIVE InsertTask(_, _)
InsertTask(sorted, t) ==
    IF sorted = <<>> THEN <<t>>
    ELSE IF TaskKeyLeq(Head(sorted), t)
         THEN <<Head(sorted)>> \o InsertTask(Tail(sorted), t)
         ELSE <<t>> \o sorted

RECURSIVE SortTasks(_, _)
SortTasks(done, todo) ==
    IF todo = <<>> THEN done ELSE SortTasks(InsertTask(done, Head(todo)), Tail(todo))

generate_weekly_schedule(cfg, slots0, subs, week_start_date) ==
    LET allocation == distribute_hours(cfg, subs)
        tasks == _create_subject_tasks(cfg, slots0, subs, week_start_date, allocation)
                 \o _create_revision_tasks(cfg, slots0, week_start_date)
                 \o _create_mock_test_task(cfg, slots0, week_start_date)
    IN  SortTasks(<<>>, tasks)

\* What a run leaves in the class-level slot list: get_available_slots hands
\* the list itself to its callers, which only index it.
SlotsAfterGenerate(slots0) == slots0

(***************************************************************************)
(* adapt_schedule.  A performance log is [subject, mock_score,             *)
(* tasks_completed, tasks_total]; mock_score is <<>> (NULL) or <<score>>.  *)
(***************************************************************************)
\* [p for p in performance_data if p.get("subject") == subject_name]
RECURSIVE SubjectPerf(_, _)
SubjectPerf(perf, subject_name) ==
    IF perf = <<>> THEN <<>>
    ELSE (IF Head(perf).subject = subject_name THEN <<Head(perf)>> ELSE <<>>)
         \o SubjectPerf(Tail(perf), subject_name)

\* "if p.get("mock_score")": None and 0 are both falsy
Truthy(mock_score) == mock_score # <<>> /\ mock_score[1] # 0

\* [p.get("mock_score", 0) for p in subject_perf if p.get("mock_score")]
RECURSIVE MockScores(_)
MockScores(subject_perf) ==
    IF subject_perf = <<>> THEN <<>>
    ELSE (IF Truthy(Head(subject_perf).mock_score)
          THEN <<Head(subject_perf).mock_score[1]>> ELSE <<>>)
         \o MockScores(Tail(subject_perf))

\* The increase without its upper limit.
IncreaseWeightUnclamped(current_weight) == current_weight + 1

\* min(current_weight + 1, self.PRIORITY_WEAK)
IncreaseWeight(current_weight) == Min(current_weight + 1, PRIORITY_WEAK)

\* max(current_weight - 1, self.PRIORITY_STRONG)
DecreaseWeight(current_weight) == Max(current_weight - 1, PRIORITY_STRONG)

\* The weight adapt_schedule proposes for one subject.  avg_score is
\* sum / len, or 0 when there is no truthy mock score; avg_score < c is
\* compared as sum < c * len.
NewWeight(current_weight, perf, subject_name) ==
    LET subject_perf == SubjectPerf(perf, subject_name)
        mock_scores  == MockScores(subject_perf)
        total        == IF mock_scores # <<>> THEN SumSeq(mock_scores) ELSE 0
        n            == IF mock_scores # <<>> THEN Len(mock_scores) ELSE 1
    IN  IF subject_perf = <<>> THEN current_weight
        ELSE IF total < 40 * n THEN IncreaseWeight(current_weight)
        ELSE IF total < 60 * n THEN current_weight
        ELSE IF total > 80 * n THEN DecreaseWeight(current_weight)
        ELSE current_weight

\* The returned dict: subject name -> new weight.
adapt_schedule(subs, perf) ==
    [name \in {subs[i].subject_name : i \in 1..Len(subs)} |->
        LET i == CHOOSE j \in 1..Len(subs) : subs[j].subject_name = name
        IN  NewWeight(subs[i].weight, perf, name)]

\* sum(p.get(field, 0) for p in subject_perf), field one of the task counts
SumTasks(subject_perf, field) ==
    SumSeq([i \in 1..Len(subject_perf) |-> subject_perf[i][field]])

\* The messages of one subject, each [kind, subject_name]; the rate and the
\* average printed inside the text ("{:.0f}%") are left out.
SubjectSuggestions(subject_name, subject_perf) ==
    LET total_tasks     == SumTasks(subject_perf, "tasks_total")
        completed_tasks == SumTasks(subject_perf, "tasks_completed")
        \* completion_rate < 50, with completion_rate 0 when total_tasks is 0
        low_rate        == IF total_tasks > 0
                           THEN completed_tasks * 100 < 50 * total_tasks ELSE TRUE
        mock_scores     == MockScores(subject_perf)
        total           == SumSeq(mock_scores)
    IN  (IF low_rate
         THEN <<[kind |-> "low_completion", subject_name |-> subject_name]>> ELSE <<>>)
        \o (IF mock_scores = <<>> THEN <<>>
            ELSE IF total < 60 * Len(mock_scores)
                 THEN <<[kind |-> "needs_improvement", subject_name |-> subject_name]>>
            ELSE IF total > 85 * Len(mock_scores)
                 THEN <<[kind |-> "excellent", subject_name |-> subject_name]>>
            ELSE <<>>)

RECURSIVE suggest_focus_areas(_, _)
suggest_focus_areas(subs, perf) ==
    IF subs = <<>> THEN <<>>
    ELSE LET subject_name == Head(subs).subject_name
             subject_perf == SubjectPerf(perf, subject_name)
         IN  (IF subject_perf = <<>> THEN <<>>
              ELSE SubjectSuggestions(subject_name, subject_perf))
             \o suggest_focus_areas(Tail(subs), perf)

\* The scheduler's subject list and the caller's log list with each new
\* weight stored into its subject.
StateWithNewWeights(subs, perf) ==
    [subjects |-> [i \in 1..Len(subs) |->
                     [subs[i] EXCEPT !.weight = NewWeight(@, perf, subs[i].subject_name)]],
     performance_data |-> perf]

\* self.subjects and the caller's list after adapt_schedule or
\* suggest_focus_areas: both only read them (subject["weight"], p.get(...))
\* and build new lists and a new dict.
StateAfterAdvice(subs, perf) == [subjects |-> subs, performance_data |-> perf]

(***************************************************************************)
(* The scheduler's specifications.                                         *)
(***************************************************************************)
SchedIdle ==
    /\ DEFAULT_STUDY_SLOTS = DefaultSlots0
    /\ user_config = <<>>
    /\ subjects = <<>>
    /\ day_date = 0
    /\ slotsOut = <<>>
    /\ allocOut = <<>>
    /\ schedFirst = <<>>
    /\ schedOut = <<>>
    /\ performance_data = <<>>
    /\ adjustments = <<>>
    /\ prevWeights = <<>>
    /\ suggestions = <<>>

\* "HH:MM" values a busy window is drawn from; <<>> is a field left empty.
WindowTimes ==
    { <<>>, <<6, 0>>, <<8, 0>>, <<9, 0>>, <<15, 30>>, <<17, 0>>, <<20, 0>>, <<22, 0>> }

SlotConfigs ==
    [daily_hours : {30}, college_start : WindowTimes, college_end : WindowTimes,
     work_start : WindowTimes, work_end : WindowTimes]

\* Two weeks of dates; day 0 is a Monday.
MaxDay == 13

SlotsInit ==
    /\ DEFAULT_STUDY_SLOTS = DefaultSlots0
    /\ user_config \in {<<c>> : c \in SlotConfigs}
    /\ subjects = <<>>
    /\ day_date \in 0..MaxDay
    /\ slotsOut = <<>>
    /\ allocOut = <<>>
    /\ schedFirst = <<>>
    /\ schedOut = <<>>
    /\ performance_data = <<>>
    /\ adjustments = <<>>
    /\ prevWeights = <<>>
    /\ suggestions = <<>>

\* scheduler.get_available_slots(day_date)
GetAvailableSlots ==
    /\ user_config # <<>>
    /\ slotsOut' = <<get_available_slots(user_config[1], DEFAULT_STUDY_SLOTS, day_date)>>
    /\ UNCHANGED <<DEFAULT_STUDY_SLOTS, user_config, subjects, day_date, allocOut,
                   schedFirst, schedOut, performance_data, adjustments, prevWeights, suggestions>>

\* Subject lists: distinct names, weights 1..3.
SchedNames == {"DSA", "Aptitude", "Maths"}

SubjectLists(names) ==
    UNION { { s \in [1..n -> [subject_name : names, weight : PRIORITY_STRONG..PRIORITY_WEAK]] :
                \A i, j \in 1..n : i # j => s[i].subject_name # s[j].subject_name }
            : n \in 0..Cardinality(names) }

NoWindow == [college_start |-> <<>>, college_end |-> <<>>,
             work_start |-> <<>>, work_end |-> <<>>]

\* daily_hours in tenths (5.0 is clamped to MAX_DAILY_HOURS), with no busy
\* window, a college day, or a working day that leaves no default slot.
SchedConfigs ==
    { [daily_hours |-> d, college_start |-> w.college_start, college_end |-> w.college_end,
       work_start |-> w.work_start, work_end |-> w.work_end] :
        d \in {10, 30, 50},
        w \in { NoWindow,
                [NoWindow EXCEPT !.college_start = <<9, 0>>, !.college_end = <<17, 0>>],
                [NoWindow EXCEPT !.work_start = <<6, 0>>, !.work_end = <<22, 0>>] } }

\* week_start_date: the Monday of a week, or a Saturday
WeekStarts == {0, 5}

SchedInit ==
    /\ DEFAULT_STUDY_SLOTS = DefaultSlots0
    /\ user_config \in {<<c>> : c \in SchedConfigs}
    /\ subjects \in SubjectLists(SchedNames)
    /\ day_date \in WeekStarts
    /\ slotsOut = <<>>
    /\ allocOut = <<>>
    /\ schedFirst = <<>>
    /\ schedOut = <<>>
    /\ performance_data = <<>>
    /\ adjustments = <<>>
    /\ prevWeights = <<>>
    /\ suggestions = <<>>

\* scheduler.distribute_hours()
DistributeHours ==
    /\ user_config # <<>>
    /\ allocOut' = <<distribute_hours(user_config[1], subjects)>>
    /\ UNCHANGED <<DEFAULT_STUDY_SLOTS, user_config, subjects, day_date, slotsOut,
                   schedFirst, schedOut, performance_data, adjustments, prevWeights, suggestions>>

\* scheduler.generate_weekly_schedule(day_date)
GenerateWeeklySchedule ==
    /\ user_config # <<>>
    /\ LET out == generate_weekly_schedule(user_config[1], DEFAULT_STUDY_SLOTS,
                                           subjects, day_date)
       IN  /\ schedOut' = <<out>>
           /\ schedFirst' = IF schedFirst = <<>> THEN <<out>> ELSE schedFirst
    /\ allocOut' = <<distribute_hours(user_config[1], subjects)>>
    /\ DEFAULT_STUDY_SLOTS' = SlotsAfterGenerate(DEFAULT_STUDY_SLOTS)
    /\ UNCHANGED <<user_config, subjects, day_date, slotsOut,
                   performance_data, adjustments, prevWeights, suggestions>>

(***************************************************************************)
(* Feedback rounds.  The caller passes the recent rows of                  *)
(* study_performance_logs (the last 7 days, newest first) to               *)
(* adapt_schedule, stores each proposed weight with save_study_subject and *)
(* builds the next scheduler from get_study_subjects.                      *)
(***************************************************************************)
AdaptNames == <<"DSA", "Maths">>

MaxLogs == 2

MockScoreValues == { <<>>, <<0>>, <<30>>, <<50>>, <<90>> }

PerfLogs ==
    [subject : Range(AdaptNames), mock_score : MockScoreValues,
     tasks_completed : {1}, tasks_total : {2}]

NameRank(name) == CHOOSE i \in 1..Len(AdaptNames) : AdaptNames[i] = name

\* ORDER BY weight DESC, subject_name ASC
RowBefore(a, b) ==
    \/ a.weight > b.weight
    \/ a.weight = b.weight /\ NameRank(a.subject_name) < NameRank(b.subject_name)

RECURSIVE get_study_subjects(_)
get_study_subjects(rows) ==
    IF rows = {} THEN <<>>
    ELSE LET first == CHOOSE r \in rows : \A o \in rows \ {r} : RowBefore(r, o)
         IN  <<first>> \o get_study_subjects(rows \ {first})

\* save_study_subject(email, name, priority, weight) for every entry of adj:
\* the upsert replaces the weight of the row with that name.
SaveWeights(subs, adj) ==
    { [subject_name |-> subs[i].subject_name, weight |-> adj[subs[i].subject_name]] :
        i \in 1..Len(subs) }

AdaptInit ==
    /\ DEFAULT_STUDY_SLOTS = DefaultSlots0
    /\ user_config = <<>>
    /\ subjects \in { get_study_subjects(Range(s)) :
                        s \in SubjectLists(Range(AdaptNames)) }
    /\ day_date = 0
    /\ slotsOut = <<>>
    /\ allocOut = <<>>
    /\ schedFirst = <<>>
    /\ schedOut = <<>>
    /\ performance_data = <<>>
    /\ adjustments = <<>>
    /\ prevWeights = <<>>
    /\ suggestions = <<>>

\* log_study_performance(email, subject, data): a new row, the newest
LogPerformance ==
    /\ Len(performance_data) < MaxLogs
    /\ \E p \in PerfLogs : performance_data' = <<p>> \o performance_data
    /\ UNCHANGED <<DEFAULT_STUDY_SLOTS, user_config, subjects, day_date, slotsOut, allocOut,
                   schedFirst, schedOut, adjustments, prevWeights, suggestions>>

\* The oldest row leaves the 7-day window of get_performance_summary.
ExpireLog ==
    /\ performance_data # <<>>
    /\ performance_data' = SubSeq(performance_data, 1, Len(performance_data) - 1)
    /\ UNCHANGED <<DEFAULT_STUDY_SLOTS, user_config, subjects, day_date, slotsOut, allocOut,
                   schedFirst, schedOut, adjustments, prevWeights, suggestions>>

\* One feedback round.
FeedbackRound ==
    /\ subjects # <<>>
    /\ LET adj == adapt_schedule(subjects, performance_data)
       IN  /\ adjustments' = <<adj>>
           /\ subjects' = get_study_subjects(SaveWeights(subjects, adj))
    /\ prevWeights' = subjects
    /\ UNCHANGED <<DEFAULT_STUDY_SLOTS, user_config, day_date, slotsOut, allocOut,
                   schedFirst, schedOut, performance_data, suggestions>>

\* Logs with and without a mock score and with completion rates of 0 of 0,
\* 1 of 2 and 1 of 4 tasks.
MaxFocusLogs == 2

FocusLogs ==
    { [subject |-> n, mock_score |-> m, tasks_completed |-> t[1], tasks_total |-> t[2]] :
        n \in Range(AdaptNames), m \in { <<>>, <<0>>, <<50>>, <<100>> },
        t \in { <<0, 0>>, <<1, 2>>, <<1, 4>> } }

FocusInit ==
    /\ DEFAULT_STUDY_SLOTS = DefaultSlots0
    /\ user_config = <<[daily_hours |-> 30, college_start |-> <<>>, college_end |-> <<>>,
                        work_start |-> <<>>, work_end |-> <<>>]>>
    /\ subjects \in { get_study_subjects(Range(s)) :
                        s \in SubjectLists(Range(AdaptNames)) }
    /\ day_date = 0
    /\ slotsOut = <<>>
    /\ allocOut = <<>>
    /\ schedFirst = <<>>
    /\ schedOut = <<>>
    /\ performance_data \in UNION { [1..n -> FocusLogs] : n \in 0..MaxFocusLogs }
    /\ adjustments = <<>>
    /\ prevWeights = <<>>
    /\ suggestions = <<>>

\* scheduler.adapt_schedule(performance_data)
AdaptSchedule ==
    /\ adjustments' = <<adapt_schedule(subjects, performance_data)>>
    /\ LET after == StateAfterAdvice(subjects, performance_data)
       IN  /\ subjects' = after.subjects
           /\ performance_data' = after.performance_data
    /\ UNCHANGED <<DEFAULT_STUDY_SLOTS, user_config, day_date, slotsOut, allocOut,
                   schedFirst, schedOut, prevWeights, suggestions>>

\* scheduler.suggest_focus_areas(performance_data)
SuggestFocusAreas ==
    /\ suggestions' = <<suggest_focus_areas(subjects, performance_data)>>
    /\ LET after == StateAfterAdvice(subjects, performance_data)
       IN  /\ subjects' = after.subjects
           /\ performance_data' = after.performance_data
    /\ UNCHANGED <<DEFAULT_STUDY_SLOTS, user_config, day_date, slotsOut, allocOut,
                   schedFirst, schedOut, adjustments, prevWeights>>

(***************************************************************************)
(* The two readiness scorers: RoadmapGenerator.calculate_readiness and     *)
(* scheduler_service.calculate_readiness_score.  A float is the exact      *)
(* fraction <<numerator, denominator>> with a positive denominator; where  *)
(* binary floating point departs from the exact value at a comparison, a   *)
(* table says so.  A dict that is not returned because the call raised has *)
(* raised = "ZeroDivisionError".                                           *)
(***************************************************************************)
Frac(n, d) == <<n, d>>

FracMul(a, b) == <<a[1] * b[1], a[2] * b[2]>>

\* a / b for b > 0
FracDiv(a, b) == <<a[1] * b[2], a[2] * b[1]>>

FracAdd(a, b) == <<a[1] * b[2] + b[1] * a[2], a[2] * b[2]>>

FracLess(a, b) == a[1] * b[2] < b[1] * a[2]

FracEq(a, b) == a[1] * b[2] = b[1] * a[2]

\* Python max(a, b) and min(a, b)
FracMax(a, b) == IF FracLess(a, b) THEN b ELSE a

FracMin(a, b) == IF FracLess(b, a) THEN b ELSE a

\* round(x, 1), in tenths
Round1(x) == RoundHalfEven(10 * x[1], x[2])

Raised ==
    [raised |-> "ZeroDivisionError", score |-> 0, level |-> "",
     completion_pct |-> 0, pace_score |-> 0]

\* The argument tuples (total_topics, completed_topics, total_days,
\* elapsed_days), up to (6, 6, 8, 9), for which the double
\* completion_pct * 0.70 + pace_score * 0.30 is just below its exact value
\* at a threshold: 66.66666666666666 * 0.70 + 44.44444444444444 * 0.30 is
\* 59.99999999999999.
FloatSumBelow ==
    { <<3, 2, 2, 3>>, <<3, 2, 4, 6>>, <<3, 2, 6, 9>>,
      <<6, 4, 2, 3>>, <<6, 4, 4, 6>>, <<6, 4, 6, 9>> }

\* "readiness >= t" on the double
ReadinessAtLeast(readiness, t, below) ==
    /\ ~FracLess(readiness, Frac(t, 1))
    /\ ~(below /\ FracEq(readiness, Frac(t, 1)))

\* if readiness >= 80 ... elif readiness >= 60 ... elif readiness >= 35
ReadinessLevel(readiness, below) ==
    IF ReadinessAtLeast(readiness, 80, below) THEN "Placement Ready"
    ELSE IF ReadinessAtLeast(readiness, 60, below) THEN "Almost There"
    ELSE IF ReadinessAtLeast(readiness, 35, below) THEN "Building Momentum"
    ELSE "Getting Started"

\* A scorer that never answers "Not Started".
NoEarlyReturn(total_topics) == FALSE

\* if total_topics == 0: return {"score": 0, "level": "Not Started", ...}
EarlyReturn(total_topics) == total_topics = 0

calculate_readiness(total_topics, completed_topics, total_days, elapsed_days) ==
    IF EarlyReturn(total_topics)
    THEN [raised |-> "", score |-> 0, level |-> "Not Started",
          completion_pct |-> 0, pace_score |-> 0]
    ELSE IF total_topics = 0 THEN Raised    \* completed_topics / total_topics
    ELSE LET completion_pct == FracMul(Frac(completed_topics, total_topics), Frac(100, 1))
             days           == Max(total_days, 1)
         IN  IF days = 0 THEN Raised        \* total_topics / max(total_days, 1)
             ELSE
             LET expected_rate   == Frac(total_topics, days)
                 expected_by_now == FracMul(expected_rate, Frac(elapsed_days, 1))
                 divisor         == FracMax(Frac(1, 1), expected_by_now)
             IN  IF divisor[1] = 0 THEN Raised
                 ELSE
                 LET pace_score == FracMin(Frac(100, 1),
                                           FracMul(FracDiv(Frac(completed_topics, 1), divisor),
                                                   Frac(100, 1)))
                     readiness  == FracAdd(FracMul(completion_pct, Frac(70, 100)),
                                           FracMul(pace_score, Frac(30, 100)))
                     below      == <<total_topics, completed_topics, total_days,
                                     elapsed_days>> \in FloatSumBelow
                 IN  [raised |-> "", score |-> Round1(readiness),
                      level |-> ReadinessLevel(readiness, below),
                      completion_pct |-> Round1(completion_pct),
                      pace_score |-> Round1(pace_score)]

\* sum(s.get("performance_score", 0) for s in subjects)
RECURSIVE SumPerformance(_)
SumPerformance(subject_list) ==
    IF subject_list = <<>> THEN 0
    ELSE Head(subject_list).performance_score + SumPerformance(Tail(subject_list))

\* if total_score >= 80 ... elif total_score >= 60 ... elif total_score >= 40
ScoreLevel(total_score) ==
    IF ~FracLess(total_score, Frac(80, 1)) THEN "Placement Ready"
    ELSE IF ~FracLess(total_score, Frac(60, 1)) THEN "Almost There"
    ELSE IF ~FracLess(total_score, Frac(40, 1)) THEN "Building Momentum"
    ELSE "Getting Started"

\* The result keeps total_score as it is before round(total_score, 1).
calculate_readiness_score(subject_list, perf, streak_data) ==
    LET avg_subject_perf  == IF subject_list # <<>>
                             THEN Frac(SumPerformance(subject_list), Len(subject_list))
                             ELSE Frac(0, 1)
        consistency_score == Min(streak_data.current_streak * 5, 100)
        mock_perf         == MockScores(perf)
        avg_mock          == IF mock_perf # <<>>
                             THEN Frac(SumSeq(mock_perf), Len(mock_perf))
                             ELSE Frac(0, 1)
        total_score       == FracAdd(FracAdd(FracMul(avg_subject_perf, Frac(60, 100)),
                                             FracMul(Frac(consistency_score, 1), Frac(25, 100))),
                                     FracMul(avg_mock, Frac(15, 100)))
    IN  [total_score |-> total_score, level |-> ScoreLevel(total_score)]

\* The arguments the two scorers are tried on.
MaxTopics == 3

MaxTotalDays == 4

MaxElapsed == 6

ReadinessArgs ==
    { [total_topics |-> t, completed_topics |-> c, total_days |-> d, elapsed_days |-> e] :
        t \in 0..MaxTopics, c \in 0..MaxTopics, d \in 0..MaxTotalDays, e \in 0..MaxElapsed }

MaxScored == 2

MaxStreak == 2

PerformanceScores == {0, 60, 100}

ScoredLists(rows) == UNION { [1..n -> rows] : n \in 0..MaxScored }

ScoreArgs ==
    [subjects : ScoredLists([performance_score : PerformanceScores]),
     performance_data : ScoredLists([mock_score : {<<>>, <<0>>, <<40>>, <<80>>}]),
     streak_data : [current_streak : 0..MaxStreak]]

ScoreIdle ==
    /\ readinessArgs = <<>>
    /\ readinessOut = <<>>

ReadinessInit ==
    /\ readinessArgs \in { <<a>> : a \in {r \in ReadinessArgs :
                                            r.completed_topics <= r.total_topics} }
    /\ readinessOut = <<>>

ScoreInit ==
    /\ readinessArgs \in { <<a>> : a \in ScoreArgs }
    /\ readinessOut = <<>>

CalculateReadiness ==
    /\ readinessArgs # <<>>
    /\ readinessOut = <<>>
    /\ LET a == readinessArgs[1]
       IN  readinessOut' = <<calculate_readiness(a.total_topics, a.completed_topics,
                                                 a.total_days, a.elapsed_days)>>
    /\ UNCHANGED readinessArgs

CalculateReadinessScore ==
    /\ readinessArgs # <<>>
    /\ readinessOut = <<>>
    /\ LET a == readinessArgs[1]
       IN  readinessOut' = <<calculate_readiness_score(a.subjects, a.performance_data,
                                                       a.streak_data)>>
    /\ UNCHANGED readinessArgs

(***************************************************************************)
(* db.py: the roadmap tables.  Foreign keys are not enforced (no PRAGMA    *)
(* foreign_keys), so rows go only where a statement deletes them.  Every   *)
(* id is AUTOINCREMENT: one more than the largest id the table ever held.  *)
(***************************************************************************)
Emails == {"asha@example.com", "ravi@example.com"}

Statuses == {"not_started", "in_progress", "completed"}

\* Largest roadmap id the model hands out.
MaxRoadmapId == 3

\* The roadmap_data of create_roadmap: what generate() returns for a topic
\* list with these levels (one day each).
LevelSeqs == { <<"beginner">>, <<"beginner", "intermediate">> }

RoadmapData(levels) ==
    LET ordered == _assign_order(
                     [i \in 1..Len(levels) |->
                        [topic |-> "Topic " \o ToString(i), days |-> 1, category |-> "dsa",
                         level |-> levels[i], estimated_days |-> 1, weight |-> 10]])
    IN  [topics |-> ordered, milestones |-> _build_milestones(ordered),
         total_days |-> SumDays(ordered)]

RoadmapInputs == { RoadmapData(ls) : ls \in LevelSeqs }

StreakIdle ==
    /\ study_streaks = {}
    /\ today = 0

\* The connections of create_roadmap calls the model follows.
MaxCalls == 3

Conns == 1..MaxCalls

IdleCall == [pc |-> "idle", email |-> "", old |-> {}]

\* The tables with an email column that the model keeps as user_rows: for
\* each one the emails that have a row in it.
DeletedTables ==
    {"users", "first_login", "onboarding_responses", "skill_checklists",
     "mock_tests", "resumes", "habits", "habit_logs"}

KeptTables ==
    {"user_activity_log", "ai_interview_results", "resume_feedback",
     "study_plan_reminders", "study_planner_config", "study_subjects",
     "study_performance_logs", "scheduled_mock_tests"}

UserTables == DeletedTables \cup KeptTables

\* Most rows user_rows holds in all.
MaxRows == 2

TxIdle ==
    /\ calls = [c \in Conns |-> IdleCall]
    /\ user_rows = [t \in UserTables |-> {}]

DbIdle ==
    /\ roadmaps = {}
    /\ roadmap_topics = {}
    /\ roadmap_milestones = {}
    /\ weekly_schedules = {}
    /\ study_tasks = {}
    /\ seq = [roadmaps |-> 0, roadmap_topics |-> 0, roadmap_milestones |-> 0,
              weekly_schedules |-> 0, study_tasks |-> 0]
    /\ lastCall = [op |-> "", email |-> "", deleted |-> 0]

\* SELECT id FROM roadmaps WHERE email = ?
RoadmapIds(email) == { r.id : r \in {x \in roadmaps : x.email = email} }

\* The topic rows when the DELETE FROM roadmap_topics is left to the
\* ON DELETE CASCADE of the table, which the connections do not enforce.
TopicsLeftToCascade(old) == roadmap_topics

\* The rows the DELETE statements of create_roadmap and delete_roadmap leave.
TopicsAfterDelete(old) == { t \in roadmap_topics : t.roadmap_id \notin old }

MilestonesAfterDelete(old) == { m \in roadmap_milestones : m.roadmap_id \notin old }
RoadmapsAfterDelete(email) == { r \in roadmaps : r.email # email }

NewTopicRows(roadmap_id, data) ==
    { [id |-> seq.roadmap_topics + i, roadmap_id |-> roadmap_id,
       topic_name |-> data.topics[i].topic,
       difficulty_level |-> data.topics[i].level,
       order_sequence |-> data.topics[i].order_sequence,
       estimated_days |-> data.topics[i].estimated_days,
       status |-> "not_started"] : i \in 1..Len(data.topics) }

NewMilestoneRows(roadmap_id, data) ==
    { [id |-> seq.roadmap_milestones + i, roadmap_id |-> roadmap_id,
       level |-> data.milestones[i].level,
       after_topic_order |-> data.milestones[i].after_topic_order,
       cumulative_days |-> data.milestones[i].cumulative_days,
       reached |-> 0] : i \in 1..Len(data.milestones) }

\* create_roadmap(db_path, email, roadmap_data)
create_roadmap(email, data) ==
    LET old == RoadmapIds(email)
        roadmap_id == seq.roadmaps + 1
    IN  /\ seq.roadmaps < MaxRoadmapId
        /\ roadmaps' = RoadmapsAfterDelete(email)
                         \cup {[id |-> roadmap_id, email |-> email,
                                total_days |-> data.total_days]}
        /\ roadmap_topics' = TopicsAfterDelete(old) \cup NewTopicRows(roadmap_id, data)
        /\ roadmap_milestones' = MilestonesAfterDelete(old)
                                   \cup NewMilestoneRows(roadmap_id, data)
        /\ seq' = [seq EXCEPT !.roadmaps = roadmap_id,
                              !.roadmap_topics = @ + Len(data.topics),
                              !.roadmap_milestones = @ + Len(data.milestones)]
        /\ lastCall' = [op |-> "create_roadmap", email |-> email,
                        deleted |-> Cardinality(roadmap_topics \ TopicsAfterDelete(old))]
        /\ UNCHANGED <<weekly_schedules, study_tasks>>

\* The roadmap tables and their sqlite_sequence counters, as one value.
RoadmapTables ==
    [roadmaps |-> roadmaps, roadmap_topics |-> roadmap_topics,
     roadmap_milestones |-> roadmap_milestones, seq |-> seq]

\* The tables inside the transaction of create_roadmap once the DELETEs for
\* the ids in `old` and for the email, the INSERT of the roadmap, the first
\* k topic INSERTs and the first j milestone INSERTs have run.
RoadmapWork(email, old, data, k, j) ==
    LET roadmap_id == seq.roadmaps + 1
    IN  [roadmaps |-> RoadmapsAfterDelete(email)
                        \cup {[id |-> roadmap_id, email |-> email,
                               total_days |-> data.total_days]},
         roadmap_topics |->
             TopicsAfterDelete(old)
               \cup { r \in NewTopicRows(roadmap_id, data) : r.id <= seq.roadmap_topics + k },
         roadmap_milestones |->
             MilestonesAfterDelete(old)
               \cup { r \in NewMilestoneRows(roadmap_id, data) :
                        r.id <= seq.roadmap_milestones + j },
         seq |-> [seq EXCEPT !.roadmaps = roadmap_id,
                             !.roadmap_topics = @ + k,
                             !.roadmap_milestones = @ + j]]

\* The exit of `with get_connection(db_path) as conn:` kept what the block
\* wrote, whether or not the block raised.
ExitKeepsWork(before, work, raised) == work

\* The exit of `with get_connection(db_path) as conn:`: the connection
\* commits when the block ends normally and rolls back when it raises.
ExitConnection(before, work, raised) == IF raised THEN before ELSE work

\* create_roadmap, first statement: SELECT id FROM roadmaps WHERE email = ?.
\* It runs before the transaction begins (the first DELETE or INSERT opens
\* it), so other connections may commit between it and the writes.
SelectOldRoadmaps(c, email) ==
    /\ calls[c].pc = "idle"
    /\ calls' = [calls EXCEPT ![c] = [pc |-> "selected", email |-> email,
                                      old |-> RoadmapIds(email)]]
    /\ UNCHANGED <<roadmaps, roadmap_topics, roadmap_milestones, weekly_schedules,
                   study_tasks, seq, lastCall, user_rows>>

\* create_roadmap, the writes up to conn.commit(): one transaction, which
\* holds the write lock of the database from its first statement on.
CommitRoadmap(c, data) ==
    LET email == calls[c].email
        work == RoadmapWork(email, calls[c].old, data,
                            Len(data.topics), Len(data.milestones))
        after == ExitConnection(RoadmapTables, work, FALSE)
    IN  /\ calls[c].pc = "selected"
        /\ seq.roadmaps < MaxRoadmapId
        /\ roadmaps' = after.roadmaps
        /\ roadmap_topics' = after.roadmap_topics
        /\ roadmap_milestones' = after.roadmap_milestones
        /\ seq' = after.seq
        /\ calls' = [calls EXCEPT ![c].pc = "committed"]
        /\ lastCall' = [op |-> "create_roadmap", email |-> email,
                        deleted |-> Cardinality(roadmap_topics
                                                  \ TopicsAfterDelete(calls[c].old))]
        /\ UNCHANGED <<weekly_schedules, study_tasks, user_rows>>

\* create_roadmap when a statement raises after k topic INSERTs (a KeyError
\* on a key of the next topic, or of the first milestone when k is the
\* number of topics; sqlite3.OperationalError when the database is locked).
FailRoadmap(c, data, k) ==
    LET email == calls[c].email
        work == RoadmapWork(email, calls[c].old, data, k, 0)
        after == ExitConnection(RoadmapTables, work, TRUE)
    IN  /\ calls[c].pc = "selected"
        /\ seq.roadmaps < MaxRoadmapId
        /\ roadmaps' = after.roadmaps
        /\ roadmap_topics' = after.roadmap_topics
        /\ roadmap_milestones' = after.roadmap_milestones
        /\ seq' = after.seq
        /\ calls' = [calls EXCEPT ![c].pc = "failed"]
        /\ UNCHANGED <<weekly_schedules, study_tasks, lastCall, user_rows>>

\* An INSERT of a row for the email into one of the tables of user_rows
\* (create_user, the savers of the planner, the loggers); a habit log is
\* written for a habit of the user.
InsertUserRow(table, email) ==
    /\ email \notin user_rows[table]
    /\ Cardinality({ p \in UserTables \X Emails : p[2] \in user_rows[p[1]] }) < MaxRows
    /\ table = "habit_logs" => email \in user_rows["habits"]
    /\ user_rows' = [user_rows EXCEPT ![table] = @ \cup {email}]
    /\ lastCall' = [op |-> "insert", email |-> email, deleted |-> 0]
    /\ UNCHANGED <<roadmaps, roadmap_topics, roadmap_milestones, weekly_schedules,
                   study_tasks, seq, calls>>

\* The rows the DELETE statements of admin_delete_user leave: the habit logs
\* of the user's habits, then habits, mock_tests, resumes, skill_checklists,
\* onboarding_responses, first_login and users by email.
RowsAfterAdminDelete(email) ==
    [t \in UserTables |->
        IF t = "habit_logs"
        THEN (IF email \in user_rows["habits"] THEN user_rows[t] \ {email}
              ELSE user_rows[t])
        ELSE IF t \in {"habits", "mock_tests", "resumes", "skill_checklists",
                       "onboarding_responses", "first_login", "users"}
             THEN user_rows[t] \ {email}
             ELSE user_rows[t]]

\* admin_delete_user(db_path, email)
admin_delete_user(email) ==
    /\ user_rows' = RowsAfterAdminDelete(email)
    /\ lastCall' = [op |-> "admin_delete_user", email |-> email,
                    deleted |-> Cardinality({ t \in UserTables :
                                   RowsAfterAdminDelete(email)[t] # user_rows[t] })]
    /\ UNCHANGED <<roadmaps, roadmap_topics, roadmap_milestones, weekly_schedules,
                   study_tasks, seq, calls>>

\* delete_roadmap(db_path, email)
delete_roadmap(email) ==
    LET old == RoadmapIds(email)
    IN  /\ roadmaps' = RoadmapsAfterDelete(email)
        /\ roadmap_topics' = TopicsAfterDelete(old)
        /\ roadmap_milestones' = MilestonesAfterDelete(old)
        /\ lastCall' = [op |-> "delete_roadmap", email |-> email,
                        deleted |-> Cardinality(roadmap_topics \ TopicsAfterDelete(old))]
        /\ UNCHANGED <<weekly_schedules, study_tasks, seq>>

\* The UPDATE of update_roadmap_topic_status.
TopicsAfterUpdate(topic_id, status, email) ==
    { IF t.id = topic_id /\ t.roadmap_id \in RoadmapIds(email)
      THEN [t EXCEPT !.status = status] ELSE t : t \in roadmap_topics }

\* SELECT id FROM roadmaps WHERE email = ? ORDER BY id DESC LIMIT 1, as a set
LatestRoadmapId(email) ==
    { rid \in RoadmapIds(email) : \A o \in RoadmapIds(email) : o <= rid }

\* The test of _refresh_milestones on one milestone: total > 0 and
\* done >= total and not ms["reached"], counted over topics.
MarksReached(topics, rid, ms) ==
    LET upto == { t \in topics : t.roadmap_id = rid
                                   /\ t.order_sequence <= ms.after_topic_order }
        done == Cardinality({ t \in upto : t.status = "completed" })
        total == Cardinality(upto)
    IN  total > 0 /\ done >= total /\ ms.reached = 0

\* _refresh_milestones(conn, email), run on the topics the UPDATE left.
_refresh_milestones(topics, email) ==
    IF LatestRoadmapId(email) = {} THEN roadmap_milestones
    ELSE LET rid == CHOOSE r \in LatestRoadmapId(email) : TRUE
         IN  { IF ms.roadmap_id = rid /\ MarksReached(topics, rid, ms)
               THEN [ms EXCEPT !.reached = 1] ELSE ms : ms \in roadmap_milestones }

\* update_roadmap_topic_status(db_path, topic_id, status, email)
update_roadmap_topic_status(topic_id, status, email) ==
    /\ roadmap_topics' = TopicsAfterUpdate(topic_id, status, email)
    /\ roadmap_milestones' = _refresh_milestones(TopicsAfterUpdate(topic_id, status, email), email)
    /\ lastCall' = [op |-> "update_roadmap_topic_status", email |-> email, deleted |-> 0]
    /\ UNCHANGED <<roadmaps, weekly_schedules, study_tasks, seq>>

CreateRoadmap == \E email \in Emails, data \in RoadmapInputs : create_roadmap(email, data)

DeleteRoadmap == \E email \in Emails : delete_roadmap(email)

UpdateTopicStatus ==
    \E t \in roadmap_topics, status \in Statuses, email \in Emails :
        update_roadmap_topic_status(t.id, status, email)

SelectOld == \E c \in Conns, email \in Emails : SelectOldRoadmaps(c, email)

CommitCreate == \E c \in Conns, data \in RoadmapInputs : CommitRoadmap(c, data)

FailCreate ==
    \E c \in Conns, data \in RoadmapInputs :
        \E k \in 0..Len(data.topics) : FailRoadmap(c, data, k)

InsertRow == \E table \in UserTables, email \in Emails : InsertUserRow(table, email)

AdminDeleteUser == \E email \in Emails : admin_delete_user(email)

Init == GenIdle /\ SchedIdle /\ DbIdle /\ ScoreIdle /\ StreakIdle /\ TxIdle

Next ==
    \/ CreateRoadmap /\ UNCHANGED <<genVars, schedVars, scoreVars, streakVars, txVars>>
    \/ DeleteRoadmap /\ UNCHANGED <<genVars, schedVars, scoreVars, streakVars, txVars>>
    \/ UpdateTopicStatus /\ UNCHANGED <<genVars, schedVars, scoreVars, streakVars, txVars>>

Spec == Init /\ [][Next]_vars

\* create_roadmap calls on several connections, statement by statement.
TxSpecInit == GenIdle /\ SchedIdle /\ DbIdle /\ ScoreIdle /\ StreakIdle /\ TxIdle

TxNext ==
    \/ SelectOld /\ UNCHANGED <<genVars, schedVars, scoreVars, streakVars>>
    \/ CommitCreate /\ UNCHANGED <<genVars, schedVars, scoreVars, streakVars>>
    \/ FailCreate /\ UNCHANGED <<genVars, schedVars, scoreVars, streakVars>>

SpecTx == TxSpecInit /\ [][TxNext]_vars

(***************************************************************************)
(* db.py: weekly_schedules and study_tasks.                                *)
(***************************************************************************)
\* Largest weekly_schedules id the model hands out.
MaxScheduleId == 3

\* The task ids the model hands out
MaxTaskId == 5

\* week_start_date / start_date values (day numbers)
StartDates == {0, 7}

StudyTask(d) ==
    [date |-> d, time |-> <<6, 0>>, subject |-> "DSA", topic |-> "Arrays & Strings",
     type |-> "study", duration_minutes |-> DEFAULT_SESSION_DURATION]

\* The task lists a generation run hands to the db.
TaskLists == { <<StudyTask(0)>>, <<StudyTask(0), StudyTask(1)>> }

\* SELECT id FROM weekly_schedules WHERE email = ?
ScheduleIds(email) == { s.id : s \in {x \in weekly_schedules : x.email = email} }

\* SELECT id FROM weekly_schedules WHERE email = ? AND week_start_date = ?
ScheduleIdsAt(email, start) ==
    { s.id : s \in {x \in weekly_schedules : x.email = email /\ x.week_start_date = start} }

\* The INSERT loop: one row per task, in order, completed = 0 by default.
NewTaskRows(email, schedule_id, tasks) ==
    { [id |-> seq.study_tasks + i, email |-> email, schedule_id |-> schedule_id,
       task_date |-> tasks[i].date, task_time |-> tasks[i].time,
       subject |-> tasks[i].subject, topic |-> tasks[i].topic,
       task_type |-> tasks[i].type, duration_minutes |-> tasks[i].duration_minutes,
       completed |-> 0] : i \in 1..Len(tasks) }

\* The task rows when the DELETE FROM study_tasks is left to the
\* ON DELETE CASCADE of the table, which the connections do not enforce.
TasksLeftToCascade(ids) == study_tasks

\* DELETE FROM study_tasks WHERE schedule_id = ?, for every id of ids
TasksAfterDelete(ids) == { t \in study_tasks : t.schedule_id \notin ids }

\* create_weekly_schedule(db_path, email, week_start_date, week_end_date, tasks).
\* The INSERT ... ON CONFLICT(email, week_start_date) DO UPDATE keeps the row
\* and its id when the week exists; SQLite draws an AUTOINCREMENT id for
\* the statement either way.
create_weekly_schedule(email, start, tasks) ==
    LET existing == ScheduleIdsAt(email, start)
        schedule_id == IF existing # {} THEN CHOOSE i \in existing : TRUE
                       ELSE seq.weekly_schedules + 1
    IN  /\ seq.weekly_schedules < MaxScheduleId
        /\ seq.study_tasks + Len(tasks) <= MaxTaskId
        /\ weekly_schedules' =
             IF existing # {} THEN weekly_schedules
             ELSE weekly_schedules
                    \cup {[id |-> schedule_id, email |-> email, week_start_date |-> start]}
        /\ study_tasks' = TasksAfterDelete({schedule_id})
                            \cup NewTaskRows(email, schedule_id, tasks)
        /\ seq' = [seq EXCEPT !.weekly_schedules = @ + 1,
                              !.study_tasks = @ + Len(tasks)]
        /\ lastCall' = [op |-> "create_weekly_schedule", email |-> email,
                        deleted |-> Cardinality(study_tasks \ TasksAfterDelete({schedule_id}))]
        /\ UNCHANGED <<roadmaps, roadmap_topics, roadmap_milestones>>

\* create_full_schedule(db_path, email, start_date, end_date, tasks)
create_full_schedule(email, start, tasks) ==
    LET old_ids == ScheduleIds(email)
        schedule_id == seq.weekly_schedules + 1
    IN  /\ seq.weekly_schedules < MaxScheduleId
        /\ seq.study_tasks + Len(tasks) <= MaxTaskId
        /\ weekly_schedules' =
             { s \in weekly_schedules : s.email # email }
               \cup {[id |-> schedule_id, email |-> email, week_start_date |-> start]}
        /\ study_tasks' = TasksAfterDelete(old_ids)
                            \cup NewTaskRows(email, schedule_id, tasks)
        /\ seq' = [seq EXCEPT !.weekly_schedules = schedule_id,
                              !.study_tasks = @ + Len(tasks)]
        /\ lastCall' = [op |-> "create_full_schedule", email |-> email,
                        deleted |-> Cardinality(study_tasks \ TasksAfterDelete(old_ids))]
        /\ UNCHANGED <<roadmaps, roadmap_topics, roadmap_milestones>>

\* mark_task_complete(db_path, task_id) / mark_task_incomplete(db_path, task_id)
SetCompleted(task_id, flag) ==
    { IF t.id = task_id THEN [t EXCEPT !.completed = flag] ELSE t : t \in study_tasks }

\* SELECT DISTINCT task_date ... WHERE email = ? AND completed = 1 (the
\* LIMIT 30 is beyond the number of task rows of the model)
CompletedDates(tasks, email) ==
    { t.task_date : t \in { x \in tasks : x.email = email /\ x.completed = 1 } }

\* The loop "for i in range(30)": the days in completed_dates counted back
\* from check_date without a gap.
RECURSIVE CountBack(_, _, _)
CountBack(completed_dates, check_date, i) ==
    IF i >= 30 \/ check_date \notin completed_dates THEN 0
    ELSE 1 + CountBack(completed_dates, check_date - 1, i + 1)

\* A streak update that stores the new current_streak as the best one.
StreakRowsBestOverwritten(tasks, email) ==
    LET completed_dates == CompletedDates(tasks, email)
    IN  { IF r.email = email
          THEN [r EXCEPT !.current_streak = CountBack(completed_dates, today, 0),
                         !.best_streak = CountBack(completed_dates, today, 0)]
          ELSE r : r \in study_streaks }

\* update_study_streak(db_path, email), run on the task rows given: both
\* statements are UPDATEs, so a user without a study_streaks row gets none.
StreakRowsAfterUpdate(tasks, email) ==
    LET completed_dates == CompletedDates(tasks, email)
        current_streak  == CountBack(completed_dates, today, 0)
    IN  IF completed_dates = {}
        THEN { IF r.email = email THEN [r EXCEPT !.current_streak = 0] ELSE r :
                 r \in study_streaks }
        ELSE { IF r.email = email
               THEN [r EXCEPT !.current_streak = current_streak,
                              !.best_streak = Max(r.best_streak, current_streak),
                              !.last_study_date = <<today>>,
                              !.total_study_days = Cardinality(completed_dates)]
               ELSE r : r \in study_streaks }

update_study_streak(email) ==
    /\ study_streaks' = StreakRowsAfterUpdate(study_tasks, email)
    /\ UNCHANGED <<dbVars, today>>

\* get_study_streak(db_path, email): the row, inserted with zeros when the
\* user has none.
get_study_streak(email) ==
    /\ study_streaks' =
         IF \E r \in study_streaks : r.email = email THEN study_streaks
         ELSE study_streaks \cup {[email |-> email, current_streak |-> 0, best_streak |-> 0,
                                   last_study_date |-> <<>>, total_study_days |-> 0]}
    /\ UNCHANGED <<dbVars, today>>

\* The UPDATE is committed, then update_study_streak runs for the email of
\* the task row.
mark_task_complete(task_id) ==
    /\ study_tasks' = SetCompleted(task_id, 1)
    /\ study_streaks' =
         IF \E t \in study_tasks : t.id = task_id
         THEN StreakRowsAfterUpdate(SetCompleted(task_id, 1),
                                    (CHOOSE t \in study_tasks : t.id = task_id).email)
         ELSE study_streaks
    /\ lastCall' = [op |-> "mark_task_complete", email |-> "", deleted |-> 0]
    /\ UNCHANGED <<roadmaps, roadmap_topics, roadmap_milestones, weekly_schedules, seq, today>>

mark_task_incomplete(task_id) ==
    /\ study_tasks' = SetCompleted(task_id, 0)
    /\ lastCall' = [op |-> "mark_task_incomplete", email |-> "", deleted |-> 0]
    /\ UNCHANGED <<roadmaps, roadmap_topics, roadmap_milestones, weekly_schedules, seq>>

CreateWeeklySchedule ==
    \E email \in Emails, start \in StartDates, tasks \in TaskLists :
        create_weekly_schedule(email, start, tasks)

CreateFullSchedule ==
    \E email \in Emails, start \in StartDates, tasks \in TaskLists :
        create_full_schedule(email, start, tasks)

MarkTaskComplete == \E t \in study_tasks : mark_task_complete(t.id)

MarkTaskIncomplete == \E t \in study_tasks : mark_task_incomplete(t.id)

ScheduleDbNext ==
    \/ CreateWeeklySchedule /\ UNCHANGED <<genVars, schedVars, scoreVars, streakVars, txVars>>
    \/ CreateFullSchedule /\ UNCHANGED <<genVars, schedVars, scoreVars, streakVars, txVars>>
    \/ MarkTaskComplete /\ UNCHANGED <<genVars, schedVars, scoreVars, txVars>>
    \/ MarkTaskIncomplete /\ UNCHANGED <<genVars, schedVars, scoreVars, streakVars, txVars>>

SpecScheduleDb == Init /\ [][ScheduleDbNext]_vars

\* The days the streaks are looked at; the tasks of the model are on days
\* 0 and 1.
Todays == {1, 2}

StreakInit ==
    /\ study_streaks = {}
    /\ today \in Todays

GetStudyStreak == \E email \in Emails : get_study_streak(email)

UpdateStudyStreak == \E email \in Emails : update_study_streak(email)

StreakSpecInit == GenIdle /\ SchedIdle /\ DbIdle /\ ScoreIdle /\ StreakInit /\ TxIdle

StreakNext ==
    \/ GetStudyStreak /\ UNCHANGED <<genVars, schedVars, scoreVars, txVars>>
    \/ UpdateStudyStreak /\ UNCHANGED <<genVars, schedVars, scoreVars, txVars>>
    \/ CreateFullSchedule /\ UNCHANGED <<genVars, schedVars, scoreVars, streakVars, txVars>>
    \/ MarkTaskComplete /\ UNCHANGED <<genVars, schedVars, scoreVars, txVars>>
    \/ MarkTaskIncomplete /\ UNCHANGED <<genVars, schedVars, scoreVars, streakVars, txVars>>

SpecStreak == StreakSpecInit /\ [][StreakNext]_vars

\* An administrator deletes users whose rows other calls have stored.
AdminSpecInit == GenIdle /\ SchedIdle /\ DbIdle /\ ScoreIdle /\ StreakIdle /\ TxIdle

AdminNext ==
    \/ InsertRow /\ UNCHANGED <<genVars, schedVars, scoreVars, streakVars>>
    \/ AdminDeleteUser /\ UNCHANGED <<genVars, schedVars, scoreVars, streakVars>>
    \/ CreateRoadmap /\ UNCHANGED <<genVars, schedVars, scoreVars, streakVars, txVars>>

SpecAdmin == AdminSpecInit /\ [][AdminNext]_vars

(***************************************************************************)
(* The specifications of the generator and of the scheduler.               *)
(***************************************************************************)
\* One generator run after another in one process.
GenSpecInit == GenInit /\ SchedIdle /\ DbIdle /\ ScoreIdle /\ StreakIdle /\ TxIdle

GenNext ==
    \/ Generate /\ UNCHANGED <<schedVars, dbVars, scoreVars, streakVars, txVars>>
    \/ GenerateOther /\ UNCHANGED <<schedVars, dbVars, scoreVars, streakVars, txVars>>

SpecGen == GenSpecInit /\ [][GenNext]_vars

SlotsSpecInit == GenIdle /\ SlotsInit /\ DbIdle /\ ScoreIdle /\ StreakIdle /\ TxIdle

SlotsNext == GetAvailableSlots /\ UNCHANGED <<genVars, dbVars, scoreVars, streakVars, txVars>>

SpecSlots == SlotsSpecInit /\ [][SlotsNext]_vars

SchedSpecInit == GenIdle /\ SchedInit /\ DbIdle /\ ScoreIdle /\ StreakIdle /\ TxIdle

SchedNext ==
    \/ DistributeHours /\ UNCHANGED <<genVars, dbVars, scoreVars, streakVars, txVars>>
    \/ GenerateWeeklySchedule /\ UNCHANGED <<genVars, dbVars, scoreVars, streakVars, txVars>>

SpecSched == SchedSpecInit /\ [][SchedNext]_vars

AdaptSpecInit == GenIdle /\ AdaptInit /\ DbIdle /\ ScoreIdle /\ StreakIdle /\ TxIdle

AdaptNext ==
    \/ LogPerformance /\ UNCHANGED <<genVars, dbVars, scoreVars, streakVars, txVars>>
    \/ ExpireLog /\ UNCHANGED <<genVars, dbVars, scoreVars, streakVars, txVars>>
    \/ FeedbackRound /\ UNCHANGED <<genVars, dbVars, scoreVars, streakVars, txVars>>

SpecAdapt == AdaptSpecInit /\ [][AdaptNext]_vars

\* Generation on either side: roadmaps by one process, or schedules by one
\* scheduler.
DetInit == GenSpecInit \/ SchedSpecInit

DetNext ==
    \/ Generate /\ UNCHANGED <<schedVars, dbVars, scoreVars, streakVars, txVars>>
    \/ GenerateOther /\ UNCHANGED <<schedVars, dbVars, scoreVars, streakVars, txVars>>
    \/ GenerateWeeklySchedule /\ UNCHANGED <<genVars, dbVars, scoreVars, streakVars, txVars>>

SpecDet == DetInit /\ [][DetNext]_vars

\* The advice calls of one scheduler on one list of logs.
FocusSpecInit == GenIdle /\ FocusInit /\ DbIdle /\ ScoreIdle /\ StreakIdle /\ TxIdle

FocusNext ==
    \/ AdaptSchedule /\ UNCHANGED <<genVars, dbVars, scoreVars, streakVars, txVars>>
    \/ SuggestFocusAreas /\ UNCHANGED <<genVars, dbVars, scoreVars, streakVars, txVars>>

SpecFocus == FocusSpecInit /\ [][FocusNext]_vars

\* One call of the roadmap-side scorer.
ReadinessSpecInit == GenIdle /\ SchedIdle /\ DbIdle /\ ReadinessInit /\ StreakIdle /\ TxIdle

ReadinessNext == CalculateReadiness /\ UNCHANGED <<genVars, schedVars, dbVars, streakVars, txVars>>

SpecReadiness == ReadinessSpecInit /\ [][ReadinessNext]_vars

\* One call of the schedule-side scorer.
ScoreSpecInit == GenIdle /\ SchedIdle /\ DbIdle /\ ScoreInit /\ StreakIdle /\ TxIdle

ScoreNext == CalculateReadinessScore /\ UNCHANGED <<genVars, schedVars, dbVars, streakVars, txVars>>

SpecScore == ScoreSpecInit /\ [][ScoreNext]_vars

(***************************************************************************)
(* Properties of the roadmap tables (specification Spec).                  *)
(***************************************************************************)
\* The stored rows of one user, reached through the user's roadmaps.
UserRoadmaps(email) == { r \in roadmaps : r.email = email }

UserTopics(email) == { t \in roadmap_topics : t.roadmap_id \in RoadmapIds(email) }

UserMilestones(email) == { m \in roadmap_milestones : m.roadmap_id \in RoadmapIds(email) }

\* The topics a milestone waits for.
TopicsUpTo(ms) ==
    { t \in roadmap_topics : t.roadmap_id = ms.roadmap_id
                               /\ t.order_sequence <= ms.after_topic_order }

\* C1: after any sequence of status updates, a milestone's reached flag is
\* set if and only if every topic with order_sequence <= its
\* after_topic_order is completed.
C1_ReachedIffAllCompleted ==
    \A ms \in roadmap_milestones :
        (ms.reached = 1) <=> (\A t \in TopicsUpTo(ms) : t.status = "completed")

\* C1: a milestone is still marked reached after one of its topics was moved
\* back from completed.
C1_StaleMilestone ==
    \E ms \in roadmap_milestones :
        /\ ms.reached = 1
        /\ TopicsUpTo(ms) # {}
        /\ \E t \in TopicsUpTo(ms) : t.status # "completed"

\* What create_roadmap is to leave for the user, without the row ids.
TopicContents(rows) ==
    { [topic_name |-> t.topic_name, difficulty_level |-> t.difficulty_level,
       order_sequence |-> t.order_sequence, estimated_days |-> t.estimated_days,
       status |-> t.status] : t \in rows }

MilestoneContents(rows) ==
    { [level |-> m.level, after_topic_order |-> m.after_topic_order,
       cumulative_days |-> m.cumulative_days, reached |-> m.reached] : m \in rows }

GivenTopics(data) ==
    { [topic_name |-> data.topics[i].topic, difficulty_level |-> data.topics[i].level,
       order_sequence |-> data.topics[i].order_sequence,
       estimated_days |-> data.topics[i].estimated_days,
       status |-> "not_started"] : i \in 1..Len(data.topics) }

GivenMilestones(data) ==
    { [level |-> data.milestones[i].level,
       after_topic_order |-> data.milestones[i].after_topic_order,
       cumulative_days |-> data.milestones[i].cumulative_days,
       reached |-> 0] : i \in 1..Len(data.milestones) }

OtherRoadmapsUnchanged(email) ==
    \A o \in Emails \ {email} :
        /\ UserRoadmaps(o)' = UserRoadmaps(o)
        /\ UserTopics(o)' = UserTopics(o)
        /\ UserMilestones(o)' = UserMilestones(o)

\* Every user has at most one roadmap, and every topic and milestone row
\* belongs to a stored roadmap.
OneRoadmapNoLeftovers ==
    /\ \A e \in Emails : Cardinality(UserRoadmaps(e)) <= 1
    /\ \A t \in roadmap_topics : \E r \in roadmaps : r.id = t.roadmap_id
    /\ \A m \in roadmap_milestones : \E r \in roadmaps : r.id = m.roadmap_id

\* A create_roadmap call leaves exactly the given topics and milestones for
\* its user, a delete_roadmap call leaves nothing, and neither touches the
\* rows of another user.
ReplacesOwnRowsOnly ==
    /\ \A email \in Emails, data \in RoadmapInputs :
         create_roadmap(email, data) =>
            /\ Cardinality(UserRoadmaps(email)') = 1
            /\ Cardinality(UserTopics(email)') = Len(data.topics)
            /\ TopicContents(UserTopics(email)') = GivenTopics(data)
            /\ Cardinality(UserMilestones(email)') = Len(data.milestones)
            /\ MilestoneContents(UserMilestones(email)') = GivenMilestones(data)
            /\ OtherRoadmapsUnchanged(email)
    /\ \A email \in Emails :
         delete_roadmap(email) =>
            /\ UserRoadmaps(email)' = {}
            /\ UserTopics(email)' = {}
            /\ UserMilestones(email)' = {}
            /\ OtherRoadmapsUnchanged(email)

\* C7: after any sequence of create_roadmap and delete_roadmap calls each
\* user has at most one roadmap, whose topics and milestones are exactly
\* those of the latest create_roadmap (not_started, reached = 0), with
\* nothing left of an earlier roadmap; other users' rows are unchanged.
C7_RegenerationReplaces == []OneRoadmapNoLeftovers /\ [][ReplacesOwnRowsOnly]_vars

\* C7: create_roadmap has just replaced a user's roadmap, deleting its
\* topics, while the other user's roadmap is stored with a completed topic.
C7_ReplacedBesideOther ==
    /\ lastCall.op = "create_roadmap"
    /\ lastCall.deleted > 0
    /\ \A e \in Emails : Cardinality(UserRoadmaps(e)) = 1 /\ UserTopics(e) # {}
    /\ \E t \in roadmap_topics :
          t.roadmap_id \notin RoadmapIds(lastCall.email) /\ t.status = "completed"

(***************************************************************************)
(* Properties of the schedule tables (specification SpecScheduleDb).       *)
(***************************************************************************)
UserSchedules(email) == { s \in weekly_schedules : s.email = email }

UserTasks(email) == { t \in study_tasks : t.email = email }

TaskContents(rows) ==
    { [date |-> t.task_date, time |-> t.task_time, subject |-> t.subject,
       topic |-> t.topic, type |-> t.task_type,
       duration_minutes |-> t.duration_minutes, completed |-> t.completed] : t \in rows }

GivenTasks(tasks) ==
    { [date |-> tasks[i].date, time |-> tasks[i].time, subject |-> tasks[i].subject,
       topic |-> tasks[i].topic, type |-> tasks[i].type,
       duration_minutes |-> tasks[i].duration_minutes, completed |-> 0] :
        i \in 1..Len(tasks) }

FullScheduleReplaces ==
    \A email \in Emails, start \in StartDates, tasks \in TaskLists :
        create_full_schedule(email, start, tasks) =>
           /\ Cardinality(UserSchedules(email)') = 1
           /\ Cardinality(UserTasks(email)') = Len(tasks)
           /\ TaskContents(UserTasks(email)') = GivenTasks(tasks)
           /\ \A t \in UserTasks(email)' : t.schedule_id \in ScheduleIds(email)'
           /\ \A t \in study_tasks' : t.schedule_id \in ScheduleIds(email)' => t.email = email
           /\ \A o \in Emails \ {email} :
                 /\ UserSchedules(o)' = UserSchedules(o)
                 /\ UserTasks(o)' = UserTasks(o)

\* C8: after create_full_schedule the user's stored tasks are exactly the
\* given tasks, all not completed and tied to the user's one schedule row;
\* every task of an earlier run of that user is gone and other users'
\* schedules and tasks are unchanged.
C8_FullScheduleReplacesRun == [][FullScheduleReplaces]_vars

\* C8: create_full_schedule has just deleted the tasks of its user's
\* earlier runs, two schedules of them, while the other user's schedule
\* keeps its tasks, one of them completed.
C8_EarlierRunDeleted ==
    /\ lastCall.op = "create_full_schedule"
    /\ lastCall.deleted > 1
    /\ \A e \in Emails : Cardinality(UserSchedules(e)) = 1 /\ UserTasks(e) # {}
    /\ \E t \in study_tasks : t.email # lastCall.email /\ t.completed = 1

(***************************************************************************)
(* Properties of the roadmap generator (specifications SpecGen, SpecDet).  *)
(***************************************************************************)
\* The names of the extra topics of the run's target company.
ExtraNames(g) ==
    IF g.target_company \in DOMAIN COMPANY_EXTRAS
    THEN { COMPANY_EXTRAS[g.target_company][i].topic :
             i \in 1..Len(COMPANY_EXTRAS[g.target_company]) }
    ELSE {}

\* beginner = 0, intermediate = 1, advanced = 2
LevelIndex(level) ==
    CASE level = "beginner" -> 0 [] level = "intermediate" -> 1 [] level = "advanced" -> 2

\* C2: the topics generate returns carry order_sequence 1..N without gap or
\* repeat; along that order the level index never decreases and, within a
\* level, estimated_days never decreases, company extras included.
C2_OrderedTopics ==
    genOut # <<>> =>
        LET ts == genOut[1].topics
        IN  /\ \A i \in 1..Len(ts) : ts[i].order_sequence = i
            /\ \A i, j \in 1..Len(ts) :
                 i < j =>
                    /\ LevelIndex(ts[i].level) <= LevelIndex(ts[j].level)
                    /\ ts[i].level = ts[j].level
                         => ts[i].estimated_days <= ts[j].estimated_days

\* C2: a run whose company extras were appended after the branch topics and
\* sorted in front of branch topics of two levels.
C2_ExtrasSortedIn ==
    /\ genOut # <<>>
    /\ LET ts == genOut[1].topics
           ex == ExtraNames(genInput[1])
       IN  \E i, j, k \in 1..Len(ts) :
              /\ i < j /\ j < k
              /\ ts[i].topic \in ex /\ ts[j].topic \notin ex /\ ts[k].topic \in ex
              /\ ts[i].level = "beginner" /\ ts[k].level # "beginner"
              /\ \E m \in 1..Len(ts) : k < m /\ ts[m].topic \notin ex

DayLoad(tasks, d) ==
    SumSeq([i \in 1..Len(tasks) |->
              IF tasks[i].date = d THEN tasks[i].duration_minutes ELSE 0])

\* daily_hours x 60 on a weekday, min(daily_hours x 1.5, 4) x 60 on a
\* weekend day, in minutes (daily_hours in tenths).
DayCapacity(cfg, d) ==
    IF Weekday(d) < 5 THEN cfg.daily_hours * 6
    ELSE Min(cfg.daily_hours * 9, MAX_DAILY_HOURS * 60)

\* C3: in the tasks of one generate_weekly_schedule run, the minutes of
\* every day (study, revision and mock test) stay within the day's
\* capacity.
C3_DayWithinCapacity ==
    schedOut # <<>> =>
        \A d \in day_date..(day_date + 6) :
            DayLoad(schedOut[1], d) <= DayCapacity(user_config[1], d)

\* C3: one hour a day, no busy window, two subjects: the Monday holds two
\* study sessions of 60 minutes.
C3_TwoSessionsInOneHourDay ==
    /\ schedOut # <<>>
    /\ user_config[1].daily_hours = 10
    /\ user_config[1].college_start = <<>> /\ user_config[1].work_start = <<>>
    /\ Len(subjects) = 2
    /\ day_date = 0
    /\ DayLoad(schedOut[1], 0) = 120

\* The hours of an allocation, in hundredths, and their sum.
AllocHours(alloc) == [i \in 1..Len(alloc) |-> alloc[i].hours]

Weights(subs) == [i \in 1..Len(subs) |-> subs[i].weight]

ActiveWindows(cfg, d) ==
    (IF d % 7 \in 0..4 /\ cfg.college_start # <<>> /\ cfg.college_end # <<>>
     THEN {<<cfg.college_start, cfg.college_end>>} ELSE {})
    \cup (IF cfg.work_start # <<>> /\ cfg.work_end # <<>>
          THEN {<<cfg.work_start, cfg.work_end>>} ELSE {})

Minutes(t) == 60 * t[1] + t[2]

\* start1 < end2 AND start2 < end1
HalfOpenOverlap(slot, w) ==
    Minutes(slot[1]) < Minutes(w[2]) /\ Minutes(w[1]) < Minutes(slot[2])

\* The default slots that overlap no active window, in their order.
Surviving(cfg, d) ==
    LET free(slot) == \A w \in ActiveWindows(cfg, d) : ~HalfOpenOverlap(slot, w)
    IN  SelectSeq(<< <<<<6, 0>>, <<8, 0>>>>, <<<<14, 0>>, <<16, 0>>>>,
                     <<<<18, 0>>, <<20, 0>>>>, <<<<20, 0>>, <<22, 0>>>> >>, free)

CollegeNineToFive(cfg) ==
    /\ cfg.college_start = <<9, 0>> /\ cfg.college_end = <<17, 0>>
    /\ cfg.work_start = <<>> /\ cfg.work_end = <<>>

\* C10: when at least one default slot survives, get_available_slots
\* returns exactly the default slots that overlap no active busy window
\* under the half-open test, in order; with college 09:00-17:00 that is 3
\* slots on a Tuesday and all 4 on a Saturday.
C10_SurvivingSlots ==
    slotsOut # <<>> =>
        /\ Surviving(user_config[1], day_date) # <<>>
             => slotsOut[1] = Surviving(user_config[1], day_date)
        /\ (CollegeNineToFive(user_config[1]) /\ day_date % 7 = 1)
             => slotsOut[1] = << <<<<6, 0>>, <<8, 0>>>>, <<<<18, 0>>, <<20, 0>>>>,
                                 <<<<20, 0>>, <<22, 0>>>> >>
        /\ (CollegeNineToFive(user_config[1]) /\ day_date % 7 = 5)
             => Len(slotsOut[1]) = 4

\* C10: a Tuesday on which the morning slot ends where the college window
\* starts and the 18:00 slot ends where the work window starts: both only
\* touch a window and are kept, the 20:00 slot is dropped.
C10_TouchingSlotsKept ==
    /\ slotsOut # <<>>
    /\ day_date % 7 = 1
    /\ user_config[1].college_start = <<8, 0>> /\ user_config[1].college_end = <<9, 0>>
    /\ user_config[1].work_start = <<20, 0>> /\ user_config[1].work_end = <<22, 0>>
    /\ slotsOut[1] = << <<<<6, 0>>, <<8, 0>>>>, <<<<14, 0>>, <<16, 0>>>>,
                        <<<<18, 0>>, <<20, 0>>>> >>

\* The weight of a subject in a subject list.
WeightIn(subs, name) ==
    subs[CHOOSE i \in 1..Len(subs) : subs[i].subject_name = name].weight

NamesOf(subs) == { subs[i].subject_name : i \in 1..Len(subs) }

\* C5: after any number of feedback rounds every subject weight is in
\* {1,2,3}, and the latest round changed no weight by more than 1.
C5_WeightsStayInRange ==
    /\ \A i \in 1..Len(subjects) : subjects[i].weight \in {1, 2, 3}
    /\ prevWeights # <<>> =>
          /\ NamesOf(subjects) = NamesOf(prevWeights)
          /\ \A name \in NamesOf(subjects) :
                WeightIn(subjects, name) - WeightIn(prevWeights, name) \in {-1, 0, 1}

\* C5: a round raised one weight to 3 and lowered another to 1 while a
\* subject already at a limit was pushed against it.
C5_RoundAtTheLimits ==
    /\ prevWeights # <<>>
    /\ \E a, b \in NamesOf(subjects) :
          /\ WeightIn(prevWeights, a) = 3 /\ WeightIn(subjects, a) = 3
          /\ adjustments[1][a] = 3
          /\ \E p \in Range(performance_data) :
                p.subject = a /\ p.mock_score = <<30>>
          /\ WeightIn(prevWeights, b) = 2 /\ WeightIn(subjects, b) = 1

\* All mock scores of a subject in the logs, a score of 0 included.
RECURSIVE ScoresOf(_, _)
ScoresOf(perf, name) ==
    IF perf = <<>> THEN <<>>
    ELSE (IF Head(perf).subject = name /\ Head(perf).mock_score # <<>>
          THEN Head(perf).mock_score ELSE <<>>)
         \o ScoresOf(Tail(perf), name)

\* The weight C6 states for one subject; avg < 40 is sum < 40 * count.
StatedWeight(weight, perf, name) ==
    LET scores == ScoresOf(perf, name)
        total  == SumSeq(scores)
        n      == Len(scores)
    IN  IF scores = <<>> THEN weight
        ELSE IF total < 40 * n THEN Min(weight + 1, 3)
        ELSE IF total > 80 * n THEN Max(weight - 1, 1)
        ELSE weight

ProposesStatedWeights ==
    FeedbackRound =>
        \A i \in 1..Len(subjects) :
            adjustments'[1][subjects[i].subject_name]
              = StatedWeight(subjects[i].weight, performance_data, subjects[i].subject_name)

\* C6: adapt_schedule proposes the unchanged weight for a subject without
\* a mock score in the logs, and otherwise min(weight+1, 3) when the mean
\* of all its mock scores (0 included) is below 40, max(weight-1, 1) when
\* it is above 80, and the unchanged weight in between.
C6_ProposalAsStated == [][ProposesStatedWeights]_vars

\* C6: the logs hold one row for a subject of weight 1, without a mock
\* score, and the round proposed weight 2 for it.
C6_RaisedWithoutScore ==
    /\ adjustments # <<>>
    /\ prevWeights # <<>>
    /\ Len(performance_data) = 1
    /\ performance_data[1].mock_score = <<>>
    /\ performance_data[1].subject \in NamesOf(prevWeights)
    /\ WeightIn(prevWeights, performance_data[1].subject) = 1
    /\ adjustments[1][performance_data[1].subject] = 2

(***************************************************************************)
(* Further properties of get_available_slots (SpecSlots).                  *)
(***************************************************************************)
NightSlot == <<<<20, 0>>, <<22, 0>>>>

\* Neither busy window has both of its ends set.
NoCompleteWindow(cfg) ==
    /\ cfg.college_start = <<>> \/ cfg.college_end = <<>>
    /\ cfg.work_start = <<>> \/ cfg.work_end = <<>>

C12_AvoidsBusyHours ==
    slotsOut # <<>> =>
        \A i \in 1..Len(slotsOut[1]) :
            \A w \in ActiveWindows(user_config[1], day_date) :
                ~HalfOpenOverlap(slotsOut[1][i], w)

\* C12: a Saturday with work 06:00-22:00: the returned night slot lies
\* inside the work window.
C12_FallbackInsideWork ==
    /\ slotsOut = << <<NightSlot>> >>
    /\ day_date % 7 = 5
    /\ user_config[1].work_start = <<6, 0>> /\ user_config[1].work_end = <<22, 0>>

(***************************************************************************)
(* A 14-day range: the weekly generator run for two consecutive weeks      *)
(* (SpecRange).  schedOut holds the tasks of both runs.                    *)
(***************************************************************************)
\* scheduler.generate_weekly_schedule(day_date) and
\* scheduler.generate_weekly_schedule(day_date + 7)
GenerateTwoWeeks ==
    /\ user_config # <<>>
    /\ schedOut' = << generate_weekly_schedule(user_config[1], DEFAULT_STUDY_SLOTS,
                                               subjects, day_date)
                      \o generate_weekly_schedule(user_config[1], DEFAULT_STUDY_SLOTS,
                                                  subjects, day_date + 7) >>
    /\ UNCHANGED <<DEFAULT_STUDY_SLOTS, user_config, subjects, day_date, slotsOut, allocOut,
                   schedFirst, performance_data, adjustments, prevWeights, suggestions>>

RangeNext == GenerateTwoWeeks /\ UNCHANGED <<genVars, dbVars, scoreVars, streakVars, txVars>>

SpecRange == SchedSpecInit /\ [][RangeNext]_vars

\* The 1-based day indices of the tasks of one type, and their number.
DaysOfType(tasks, type) ==
    { tasks[i].date - day_date + 1 : i \in { j \in 1..Len(tasks) : tasks[j].type = type } }

CountOfType(tasks, type) == Cardinality({ j \in 1..Len(tasks) : tasks[j].type = type })

\* C13: a schedule over 14 days holds exactly two mock tests, on days 7
\* and 14, and exactly four revisions, on days 3, 6, 9 and 12.
C13_MockEverySeventhRevisionEveryThird ==
    schedOut # <<>> =>
        /\ CountOfType(schedOut[1], "mock_test") = 2
        /\ DaysOfType(schedOut[1], "mock_test") = {7, 14}
        /\ CountOfType(schedOut[1], "revision") = 4
        /\ DaysOfType(schedOut[1], "revision") = {3, 6, 9, 12}

\* C13: the two weekly runs put the mock tests on days 6 and 13 and the
\* revisions on days 3, 6, 10 and 13.
C13_SaturdayMocks ==
    /\ schedOut # <<>>
    /\ day_date = 0
    /\ DaysOfType(schedOut[1], "mock_test") = {6, 13}
    /\ DaysOfType(schedOut[1], "revision") = {3, 6, 10, 13}
    /\ CountOfType(schedOut[1], "revision") = 4


(***************************************************************************)
(* The readiness scorers.                                                  *)
(***************************************************************************)
\* C14: calculate_readiness returns a dict for every argument tuple (no
\* division by zero, with total_days = 0 and elapsed_days = 0 too), and
\* with total_topics = 0 the dict has score 0 and level "Not Started".
C14_NoTopicsNotStarted ==
    readinessOut # <<>> =>
        /\ readinessOut[1].raised = ""
        /\ readinessArgs[1].total_topics = 0 =>
              /\ readinessOut[1].score = 0
              /\ readinessOut[1].level = "Not Started"

\* The scorer has answered for no topics, no days and no elapsed day.
C14_NoTopicsNoDays ==
    /\ readinessOut # <<>>
    /\ readinessArgs[1].total_topics = 0
    /\ readinessArgs[1].total_days = 0
    /\ readinessArgs[1].elapsed_days = 0
    /\ readinessOut[1].level = "Not Started"

\* completed / total x 100
StatedCompletion(a) == Frac(100 * a.completed_topics, a.total_topics)

\* min(100, completed / max(1, total / max(total_days, 1) x elapsed_days) x 100)
StatedPace(a) ==
    LET expected == Frac(a.total_topics * a.elapsed_days, Max(a.total_days, 1))
        per      == IF FracLess(Frac(1, 1), expected) THEN expected ELSE Frac(1, 1)
        pace     == Frac(100 * a.completed_topics * per[2], per[1])
    IN  IF FracLess(pace, Frac(100, 1)) THEN pace ELSE Frac(100, 1)

\* completion_pct x 0.70 + pace_score x 0.30
StatedReadiness(a) ==
    LET c == StatedCompletion(a)
        p == StatedPace(a)
    IN  Frac(7 * c[1] * p[2] + 3 * p[1] * c[2], 10 * c[2] * p[2])

\* The four tiers of a value r: >= 80, >= 60, >= 35, else.
StatedTier(r) ==
    IF r[1] >= 80 * r[2] THEN "Placement Ready"
    ELSE IF r[1] >= 60 * r[2] THEN "Almost There"
    ELSE IF r[1] >= 35 * r[2] THEN "Building Momentum"
    ELSE "Getting Started"

\* C15: for total_topics > 0 the level returned is the tier of
\* completion_pct x 0.70 + pace_score x 0.30, with the thresholds 80, 60
\* and 35.
C15_TierOfStatedReadiness ==
    (readinessOut # <<>> /\ readinessArgs[1].total_topics > 0) =>
        readinessOut[1].level = StatedTier(StatedReadiness(readinessArgs[1]))

\* 2 of 3 topics done, 3 days into a 2-day roadmap: the readiness is 60,
\* the score returned is 60.0 and the level is the one below "Almost There".
C15_SixtyBuildingMomentum ==
    /\ readinessOut # <<>>
    /\ readinessArgs[1] = [total_topics |-> 3, completed_topics |-> 2,
                           total_days |-> 2, elapsed_days |-> 3]
    /\ FracEq(StatedReadiness(readinessArgs[1]), Frac(60, 1))
    /\ readinessOut[1].score = 600
    /\ readinessOut[1].level = "Building Momentum"

\* C16: calculate_readiness_score gives its composite the tier of the
\* thresholds 80, 60 and 35, the tier the roadmap-side scorer gives to
\* the same value.
C16_SameThresholds ==
    readinessOut # <<>> =>
        /\ readinessOut[1].level = StatedTier(readinessOut[1].total_score)
        /\ readinessOut[1].level = ReadinessLevel(readinessOut[1].total_score, FALSE)

\* One subject at 60, no streak, no mock test: the composite is 36, which
\* the schedule side calls "Getting Started" and the roadmap side
\* "Building Momentum".
C16_ThirtySixGettingStarted ==
    /\ readinessOut # <<>>
    /\ FracEq(readinessOut[1].total_score, Frac(36, 1))
    /\ readinessOut[1].level = "Getting Started"
    /\ ReadinessLevel(readinessOut[1].total_score, FALSE) = "Building Momentum"


(***************************************************************************)
(* The stages of the generator (specification SpecGen).                    *)
(***************************************************************************)
\* A run whose branch, employer type and level are all catalog keys.
KnownKeys(g) ==
    /\ g.branch \in DOMAIN BRANCH_TEMPLATES
    /\ g.company_type \in DOMAIN COMPANY_WEIGHTS
    /\ g.preparation_level \in Range(SUPPORTED_LEVELS)

\* The topic names a branch's template lists under a level.
TemplateNames(branch, level) ==
    { BRANCH_TEMPLATES[branch][level][k].topic :
        k \in 1..Len(BRANCH_TEMPLATES[branch][level]) }

\* C17: with preparation level L, generate returns only topics (branch
\* topics and company extras) whose level index is at most the index of L,
\* and every branch topic at or below L whose multiplier is not below 0.3;
\* every topic that is not an extra is a topic of the branch's template;
\* CSE, product, beginner gives "Arrays & Strings" 6 days.
C17_LevelFilter ==
    (genOut # <<>> /\ KnownKeys(genInput[1])) =>
        LET g  == genInput[1]
            ts == genOut[1].topics
            L  == LevelIndex(g.preparation_level)
        IN  /\ \A i \in 1..Len(ts) : LevelIndex(ts[i].level) <= L
            /\ \A i \in 1..Len(ts) :
                 ts[i].topic \notin ExtraNames(g)
                    => ts[i].topic \in TemplateNames(g.branch, ts[i].level)
            /\ \A lv \in Range(SUPPORTED_LEVELS) :
                 \A k \in 1..Len(BRANCH_TEMPLATES[g.branch][lv]) :
                    LET e == BRANCH_TEMPLATES[g.branch][lv][k]
                    IN  (/\ LevelIndex(lv) <= L
                         /\ WeightOf(COMPANY_WEIGHTS[g.company_type], e.category) >= 3)
                           => \E i \in 1..Len(ts) :
                                 ts[i].topic = e.topic /\ ts[i].level = lv
            /\ (g.branch = "CSE" /\ g.company_type = "product"
                  /\ g.preparation_level = "beginner")
                 => \E i \in 1..Len(ts) :
                       /\ ts[i].topic = "Arrays & Strings"
                       /\ ts[i].estimated_days = 6

\* A beginner run for CSE, product, TCS: the beginner extra of TCS is in
\* the roadmap, its intermediate extra is not, and no CSE topic above
\* beginner is.
C17_BeginnerOnly ==
    /\ genOut # <<>>
    /\ genInput[1] = [branch |-> "CSE", company_type |-> "product",
                      preparation_level |-> "beginner", target_company |-> "TCS"]
    /\ LET ts == genOut[1].topics
       IN  /\ \E i \in 1..Len(ts) : ts[i].topic = "TCS NQT - Quantitative Practice"
           /\ \A i \in 1..Len(ts) : ts[i].topic # "TCS NQT - Coding Practice"
           /\ \A i \in 1..Len(ts) : ts[i].level = "beginner"
           /\ Len(ts) = Len(BRANCH_TEMPLATES["CSE"].beginner) + 1


\* The run's inputs with CSE for a branch and service for an employer
\* type that the catalog does not list.
WithDefaults(g) ==
    [g EXCEPT !.branch = IF @ \in DOMAIN BRANCH_TEMPLATES THEN @ ELSE "CSE",
              !.company_type = IF @ \in DOMAIN COMPANY_WEIGHTS THEN @ ELSE "service"]

\* C18: a run with a branch or an employer type that is not in the catalog
\* returns the topics, milestones and total days of the run with CSE,
\* respectively service, in its place (other inputs equal).
C18_UnknownKeysDefault ==
    (genOut # <<>> /\ WithDefaults(genInput[1]) # genInput[1]) =>
        LET ref == generate(Catalog0, WithDefaults(genInput[1]))
        IN  /\ genOut[1].topics = ref.topics
            /\ genOut[1].milestones = ref.milestones
            /\ genOut[1].total_days = ref.total_days

\* A run for a branch and an employer type the catalog does not list has
\* returned a roadmap with topics and milestones.
C18_UnknownBranchAndType ==
    /\ genOut # <<>>
    /\ genInput[1].branch \notin DOMAIN BRANCH_TEMPLATES
    /\ genInput[1].company_type \notin DOMAIN COMPANY_WEIGHTS
    /\ genOut[1].topics # <<>>
    /\ genOut[1].milestones # <<>>
    /\ genOut[1].total_days > 0


\* The weighting stage on one 4-day topic under a table that gives its
\* category the multiplier w10 / 10: the catalog itself has no multiplier
\* below 0.3, so the drop is tried on multipliers 0.0 to 1.6.
StageDropsBelowLimit ==
    \A w10 \in 0..16 :
        LET out == ApplyWeightsLoop("dsa" :> w10,
                                    <<[topic |-> "Arrays & Strings", days |-> 4,
                                       category |-> "dsa", level |-> "beginner"]>>)
        IN  /\ (out = <<>>) <=> (w10 < 3)
            /\ out # <<>> => out[1].estimated_days = Max(1, RoundHalfEven(4 * w10, 10))

\* C19: a branch topic (at or below the run's level) is left out if and
\* only if its category multiplier for the employer type is below 0.3; a
\* topic that is kept has estimated_days = max(1, round(base days x
\* multiplier)); every topic of every roadmap has estimated_days >= 1.
C19_DroppedBelowLimit ==
    genOut # <<>> =>
        LET g  == genInput[1]
            ts == genOut[1].topics
        IN  /\ StageDropsBelowLimit
            /\ \A i \in 1..Len(ts) : ts[i].estimated_days >= 1
            /\ KnownKeys(g) =>
                 \A lv \in Range(SUPPORTED_LEVELS) :
                   \A k \in 1..Len(BRANCH_TEMPLATES[g.branch][lv]) :
                     LET e    == BRANCH_TEMPLATES[g.branch][lv][k]
                         w    == WeightOf(COMPANY_WEIGHTS[g.company_type], e.category)
                         kept == { i \in 1..Len(ts) :
                                     ts[i].topic = e.topic /\ ts[i].level = lv }
                     IN  LevelIndex(lv) <= LevelIndex(g.preparation_level) =>
                           /\ (kept = {}) <=> (w < 3)
                           /\ \A i \in kept :
                                ts[i].estimated_days
                                   = Max(1, RoundHalfEven(e.days * w, 10))

\* A run for a core employer keeps a branch topic whose multiplier is
\* exactly 0.3.
C19_KeptAtLimit ==
    /\ genOut # <<>>
    /\ genInput[1].company_type = "core"
    /\ \E i \in 1..Len(genOut[1].topics) :
          /\ genOut[1].topics[i].weight = 3
          /\ genOut[1].topics[i].topic \notin ExtraNames(genInput[1])
          /\ genOut[1].topics[i].estimated_days
                = Max(1, RoundHalfEven(genOut[1].topics[i].days * 3, 10))


\* The levels that have a topic in ts, in level order.
LevelsPresent(ts) ==
    SelectSeq(SUPPORTED_LEVELS, LAMBDA lv : \E i \in 1..Len(ts) : ts[i].level = lv)

\* The sum of estimated_days of the topics of ts at level index idx or lower.
DaysUpTo(ts, idx) ==
    SumSeq([i \in 1..Len(ts) |->
              IF LevelIndex(ts[i].level) <= idx THEN ts[i].estimated_days ELSE 0])

\* C20: generate returns one milestone for each level that has a topic, in
\* level order; its after_topic_order is the largest order_sequence of the
\* level's topics and its cumulative_days the sum of estimated_days of the
\* topics of that level and of lower levels; after_topic_order increases
\* strictly and the last milestone has after_topic_order = N and
\* cumulative_days = total_days.
C20_MilestonePerLevel ==
    genOut # <<>> =>
        LET ts == genOut[1].topics
            ms == genOut[1].milestones
        IN  /\ [k \in 1..Len(ms) |-> ms[k].level] = LevelsPresent(ts)
            /\ \A k \in 1..Len(ms) :
                 /\ \E i \in 1..Len(ts) :
                       /\ ts[i].level = ms[k].level
                       /\ ts[i].order_sequence = ms[k].after_topic_order
                 /\ \A i \in 1..Len(ts) :
                       ts[i].level = ms[k].level
                          => ts[i].order_sequence <= ms[k].after_topic_order
                 /\ ms[k].cumulative_days = DaysUpTo(ts, LevelIndex(ms[k].level))
            /\ \A j, k \in 1..Len(ms) :
                 j < k => ms[j].after_topic_order < ms[k].after_topic_order
            /\ ts # <<>> =>
                 /\ ms # <<>>
                 /\ ms[Len(ms)].after_topic_order = Len(ts)
                 /\ ms[Len(ms)].cumulative_days = genOut[1].total_days

\* An advanced run with company extras has returned three milestones, the
\* first after more than one topic and before the last topic.
C20_ThreeMilestones ==
    /\ genOut # <<>>
    /\ genInput[1].target_company \in DOMAIN COMPANY_EXTRAS
    /\ Len(genOut[1].milestones) = 3
    /\ genOut[1].milestones[1].after_topic_order > 1
    /\ genOut[1].milestones[3].after_topic_order = Len(genOut[1].topics)
    /\ genOut[1].milestones[2].cumulative_days > genOut[1].milestones[1].cumulative_days


(***************************************************************************)
(* The advice of the scheduler (specification SpecFocus).                  *)
(***************************************************************************)
\* The rows of the logs for a subject, and the mean of all their mock
\* scores (a row without a score has none; a score of 0 is a score).
RowsOf(name) == SubjectPerf(performance_data, name)

ScoredRows(name) ==
    SelectSeq(RowsOf(name), LAMBDA p : p.mock_score # <<>>)

ScoreSum(name) ==
    SumSeq([i \in 1..Len(ScoredRows(name)) |-> ScoredRows(name)[i].mock_score[1]])

\* The messages the statement gives one subject.
StatedMessages(name) ==
    LET rows  == RowsOf(name)
        total == SumTasks(rows, "tasks_total")
        done  == SumTasks(rows, "tasks_completed")
        n     == Len(ScoredRows(name))
    IN  IF rows = <<>> THEN <<>>
        ELSE (IF total = 0 \/ 2 * done < total
              THEN <<[kind |-> "low_completion", subject_name |-> name]>> ELSE <<>>)
             \o (IF n > 0 /\ ScoreSum(name) < 60 * n
                 THEN <<[kind |-> "needs_improvement", subject_name |-> name]>> ELSE <<>>)
             \o (IF n > 0 /\ ScoreSum(name) > 85 * n
                 THEN <<[kind |-> "excellent", subject_name |-> name]>> ELSE <<>>)

RECURSIVE StatedSuggestions(_)
StatedSuggestions(subs) ==
    IF subs = <<>> THEN <<>>
    ELSE StatedMessages(Head(subs).subject_name) \o StatedSuggestions(Tail(subs))

\* C21: suggest_focus_areas returns, subject by subject in the order of the
\* subject list, a low-completion warning iff completed/total is below 50%
\* (0 of 0 counts as 0%), an improvement suggestion iff the mean mock score
\* is below 60 and a positive note iff it is above 85; nothing for a
\* subject without rows.
C21_MessagesAsStated ==
    suggestions # <<>> => suggestions[1] = StatedSuggestions(subjects)

\* DSA scored 0 and 100: the mean is 50, and the list returned praises DSA.
C21_PraisedAtFifty ==
    /\ suggestions # <<>>
    /\ Len(ScoredRows("DSA")) = 2
    /\ ScoreSum("DSA") = 100
    /\ \E i \in 1..Len(suggestions[1]) :
          suggestions[1][i] = [kind |-> "excellent", subject_name |-> "DSA"]


\* C25: a call of adapt_schedule or of suggest_focus_areas leaves the
\* scheduler's subject list and configuration and the logs passed in as
\* they were; the new weights are in the returned map only.
C25_AdviceLeavesState ==
    [][ /\ subjects' = subjects
        /\ user_config' = user_config
        /\ performance_data' = performance_data ]_vars

\* adapt_schedule has returned a weight for a subject that differs from the
\* weight the scheduler holds for it.
C25_ProposedOnly ==
    /\ adjustments # <<>>
    /\ performance_data # <<>>
    /\ \E i \in 1..Len(subjects) :
          adjustments[1][subjects[i].subject_name] # subjects[i].weight


(***************************************************************************)
(* The tasks of one generated week (specification SpecSched).              *)
(***************************************************************************)
\* The slots of a day of the run, and the start of the last of them.
DaySlots(d) == get_available_slots(user_config[1], DefaultSlots0, d)

LastSlotStart(d) == DaySlots(d)[Len(DaySlots(d))][1]

\* The first subject of the list that has the highest weight.
TopSubject(subs) ==
    subs[CHOOSE i \in 1..Len(subs) :
           /\ \A j \in 1..Len(subs) : subs[j].weight <= subs[i].weight
           /\ \A j \in 1..(i - 1) : subs[j].weight < subs[i].weight].subject_name

TasksOn(tasks, d) == Cardinality({ i \in 1..Len(tasks) : tasks[i].date = d })

\* C23: in one generated schedule no two tasks have the same date and the
\* same slot start, and a day has no more tasks than available slots.
C23_OneTaskPerSlot ==
    schedOut # <<>> =>
        /\ \A i, j \in 1..Len(schedOut[1]) :
             i # j => ~(/\ schedOut[1][i].date = schedOut[1][j].date
                        /\ schedOut[1][i].time = schedOut[1][j].time)
        /\ \A d \in day_date..(day_date + 6) :
             TasksOn(schedOut[1], d) <= Len(DaySlots(d))

\* The first day of the week holds the first sessions of two subjects at
\* the same start time.
C23_FirstSessionsCollide ==
    /\ schedOut # <<>>
    /\ \E i, j \in 1..Len(schedOut[1]) :
          /\ i # j
          /\ schedOut[1][i].type = "study" /\ schedOut[1][j].type = "study"
          /\ schedOut[1][i].subject # schedOut[1][j].subject
          /\ schedOut[1][i].date = schedOut[1][j].date
          /\ schedOut[1][i].time = schedOut[1][j].time

\* C24: with no subject the allocation is empty and the schedule has no
\* task; with weights that sum to 0 every subject is allocated 0.
C24_NoSubjectsNoTasks ==
    /\ (subjects = <<>> /\ allocOut # <<>>) => allocOut[1] = <<>>
    /\ (subjects = <<>> /\ schedOut # <<>>) => schedOut[1] = <<>>
    /\ (TotalWeight(subjects) = 0 /\ allocOut # <<>>)
          => \A i \in 1..Len(allocOut[1]) : allocOut[1][i].hours = 0

\* A week generated for no subject holds two revisions and a mock test.
C24_RevisionOfNothing ==
    /\ subjects = <<>>
    /\ schedOut # <<>>
    /\ allocOut[1] = <<>>
    /\ Len(schedOut[1]) = 3
    /\ \A i \in 1..3 : schedOut[1][i].type \in {"revision", "mock_test"}


(***************************************************************************)
(* The study streaks (specification SpecStreak).                           *)
(***************************************************************************)
\* The days, counted back from today without a gap, on each of which the
\* user has a task that is marked completed now.
DaysInARow(email, d) ==
    Cardinality({ k \in 0..d :
                    \A j \in 0..k :
                       \E t \in study_tasks :
                          t.email = email /\ t.completed = 1 /\ t.task_date = d - j })

\* C29: the stored current_streak of a user is the number of consecutive
\* days, back from today, with a task of the user that is marked completed.
C29_StreakIsDaysInARow ==
    /\ \A r \in study_streaks : r.current_streak = DaysInARow(r.email, today)
    /\ \A email \in Emails :
          DaysInARow(email, today) > 0
             => \E r \in study_streaks : r.email = email

\* A user's streak of 2 is still stored after the task of today was marked
\* incomplete.
C29_StaleStreak ==
    /\ lastCall.op = "mark_task_incomplete"
    /\ \E r \in study_streaks :
          /\ r.current_streak = 2
          /\ DaysInARow(r.email, today) = 0

\* C30: 0 <= current_streak <= best_streak in every row of study_streaks,
\* and no call (get_study_streak, update_study_streak, mark_task_complete,
\* mark_task_incomplete, create_full_schedule) removes a row or lowers its
\* best_streak.
C30_StreakWithinBest ==
    /\ [](\A r \in study_streaks :
             0 <= r.current_streak /\ r.current_streak <= r.best_streak)
    /\ [][\A r \in study_streaks :
             \E n \in study_streaks' :
                n.email = r.email /\ n.best_streak >= r.best_streak]_vars

\* A row whose current streak fell back to 0 under a best streak of 2.
C30_BestKept ==
    \E r \in study_streaks : r.current_streak = 0 /\ r.best_streak = 2

\* The roadmap ids stored for a user's email, and the detail rows that refer
\* to no stored roadmap.
OrphanTopics == { t \in roadmap_topics : \A r \in roadmaps : r.id # t.roadmap_id }

OrphanMilestones ==
    { ms \in roadmap_milestones : \A r \in roadmaps : r.id # ms.roadmap_id }

\* C26: a create_roadmap call that fails part-way leaves the roadmaps, the
\* topics, the milestones and the id counters exactly as they were: the
\* previous roadmap is still stored and no row of the new one is.
C26_FailedCreateKeepsAll ==
    [][\A c \in Conns :
          (calls[c].pc = "selected" /\ calls'[c].pc = "failed")
             => /\ roadmaps' = roadmaps
                /\ roadmap_topics' = roadmap_topics
                /\ roadmap_milestones' = roadmap_milestones
                /\ seq' = seq]_vars

\* A call failed for a user whose previous roadmap, with topics and
\* milestones, is stored.
C26_FailedOverStored ==
    \E c \in Conns :
        /\ calls[c].pc = "failed"
        /\ \E r \in roadmaps :
              /\ r.email = calls[c].email
              /\ r.id \in calls[c].old
              /\ \E t \in roadmap_topics : t.roadmap_id = r.id
              /\ \E ms \in roadmap_milestones : ms.roadmap_id = r.id

\* C28: once interleaved create_roadmap calls have all committed or failed,
\* a user with a committed call has exactly one roadmap, and no topic or
\* milestone row refers to a roadmap that is not stored.
C28_OneRoadmapNoOrphans ==
    (\A c \in Conns : calls[c].pc # "selected")
       => /\ \A c \in Conns :
                calls[c].pc = "committed"
                   => Cardinality(RoadmapIds(calls[c].email)) = 1
          /\ OrphanTopics = {}
          /\ OrphanMilestones = {}

\* Two calls for one user read the same old ids and both committed: the
\* rows of the call that committed first are left without their roadmap.
C28_FirstCommitOrphaned ==
    \E c, d \in Conns :
        /\ c # d
        /\ calls[c].pc = "committed" /\ calls[d].pc = "committed"
        /\ calls[c].email = calls[d].email
        /\ calls[c].old = calls[d].old
        /\ \A e \in Conns : calls[e].pc # "selected"
        /\ OrphanTopics # {}
        /\ OrphanMilestones # {}

\* No stored row refers to the email: none of the tables with an email
\* column, and no topic, milestone or task of a roadmap or schedule of it.
NoRowOf(email) ==
    /\ \A t \in UserTables : email \notin user_rows[t]
    /\ \A r \in roadmaps : r.email # email
    /\ \A s \in weekly_schedules : s.email # email
    /\ \A t \in study_tasks : t.email # email
    /\ \A r \in study_streaks : r.email # email

\* C27: after admin_delete_user(email) no stored row of any table refers to
\* the email.
C27_NoRowLeft ==
    lastCall.op = "admin_delete_user" => NoRowOf(lastCall.email)

\* admin_delete_user removed a row of the email and left its roadmap with
\* topics and a row of a table it never names.
C27_RowsLeft ==
    /\ lastCall.op = "admin_delete_user"
    /\ lastCall.deleted > 0
    /\ \A t \in DeletedTables : lastCall.email \notin user_rows[t]
    /\ \E t \in KeptTables : lastCall.email \in user_rows[t]
    /\ \E r \in roadmaps :
          /\ r.email = lastCall.email
          /\ \E t \in roadmap_topics : t.roadmap_id = r.id

=============================================================================
